---- MODULE Spec2Model ----
(***************************************************************************)
(* Model of the filesystem-backed job queue of osbuild-composer            *)
(* (internal/jobqueue/fsjobqueue).  Job documents live in a keyed JSON     *)
(* store (db), the per-type pending channels and the reverse-dependency    *)
(* map (dependants) live in memory.  Every public operation is split into  *)
(* the steps at which it touches shared state (a document read, a document *)
(* write, a channel send or receive, a mutex acquisition), so that the     *)
(* goroutine interleavings the Go code allows are the interleavings of the *)
(* model.                                                                   *)
(***************************************************************************)
EXTENDS Integers, Sequences, FiniteSets, TLC

VARIABLES
    db,          \* jsondb directory: job id -> job document
    pending,     \* fsJobQueue.pending: job type -> channel (FIFO of job ids)
    dependants,  \* fsJobQueue.dependants: job id -> list of job ids
    mutex,       \* holder of fsJobQueue.dependantsMutex, or NoHolder
    th,          \* per goroutine: position in the running operation and its locals
    nextId,      \* the next value uuid.New() returns
    clock,       \* the wall clock read by time.Now()
    phase,       \* "new" while fsjobqueue.New runs, "up" once it has returned
    nw,          \* locals of the running fsjobqueue.New
    restarts,    \* number of process restarts so far
    last,        \* the call that returned in the latest step, with what it returned
    deqCount,    \* history: job id -> number of successful Dequeue returns
    pushed,      \* history: job id -> sends to a pending channel since the last New
    received,    \* history: ids some Dequeue has received from a pending channel
    enqArgs,     \* history: job id -> the args value its Enqueue was given
    enqDone,     \* history: ids whose Enqueue has returned successfully
    enqPrior,    \* history: job id -> enqDone at the time its Enqueue was called
    loaded,      \* history: the ids the latest New found in the directory
    startRunning, \* history: the ids the latest New found Running
    store,       \* store.Store: the exported fields of the in-memory store
    state,       \* the document "state" of the store's jsondb (state.json)
    heap,        \* the objects the store reaches through pointers and slices
    mu,          \* Store.mu: its writer and its readers
    sth,         \* per goroutine: position in the running store operation
    dirs,        \* the compose ids that have a directory under outputs/
    files        \* compose id -> the result written to its result.json

vars == <<db, pending, dependants, mutex, th, nextId, clock, phase, nw,
          restarts, last, deqCount, pushed, received, enqArgs, enqDone, enqPrior,
          loaded, startRunning, store, state, heap, mu, sth, dirs, files>>

(* The variables of the compose store. *)
svars == <<store, state, heap, mu, sth, dirs, files>>

(* The history variables. *)
hist == <<deqCount, pushed, received, enqArgs, enqDone, enqPrior, loaded,
          startRunning>>

----------------------------------------------------------------------------
(* Bounds of the model. *)

MaxJobs == 3
MaxTime == 3
MaxRestarts == 1
MaxChain == 4
MaxTimedJobs == 2
MaxArgJobs == 2
MaxRestartJobs == 3
MaxBurst == 101
MaxErrJobs == 2
MaxTargets == 2
MaxPushTargets == 1
MaxComposes == 1
MaxCommits == 3
MaxPatch == 1
MaxLegacy == 3
MaxStamp == 1
MaxWorkerJobs == 1

(* Capacity of a pending channel: make(chan uuid.UUID, 100). *)
ChanCap == 100

Threads == {"t1", "t2"}
JobTypes == {"fish", "octopus"}

(* uuid.Nil *)
NilId == 0

NoHolder == "none"
NewHolder == "new"

JobPending == "Pending"
JobRunning == "Running"
JobFinished == "Finished"

(* time.Time{} *)
ZeroTime == 0

----------------------------------------------------------------------------
(* Go values passed as job arguments and results, and their JSON encoding. *)
(* A value is a struct {I int; S string} (kind "struct", as `argument` in  *)
(* the package's callers) or a channel (kind "chan"), which encoding/json  *)
(* refuses to marshal.                                                      *)

Value(k, i, s) == [kind |-> k, I |-> i, S |-> s]

ZeroValue == Value("struct", 0, "")
ChanValue == Value("chan", 0, "")

Digit == <<"0", "1", "2", "3", "4", "5", "6", "7", "8", "9">>

RECURSIVE Itoa(_)
Itoa(n) == IF n < 10 THEN Digit[n + 1] ELSE Itoa(n \div 10) \o Digit[(n % 10) + 1]

Atoi(s) == CHOOSE n \in 0..99 : Itoa(n) = s

(* json.RawMessage: the token sequence of the encoded document. *)
NoRaw == << >>

(* worker.OSBuildJobResult (json.go lines 20-22): OSBuildOutput is a    *)
(* pointer to a common.ComposeResult, of which Success is looked at, or  *)
(* nil.                                                                    *)
NilOutput == [nil |-> TRUE]
ComposeResult(success) == [nil |-> FALSE, Success |-> success]
OSBuildJobResult(output) ==
    [kind |-> "OSBuildJobResult", I |-> 0, S |-> "", OSBuildOutput |-> output]

(* json.Marshal(v): [ok, raw]. A nil osbuild_output is left out         *)
(* (omitempty).                                                           *)
Marshal(v) ==
    IF v.kind = "chan"
    THEN [ok |-> FALSE, raw |-> NoRaw]
    ELSE IF v.kind = "OSBuildJobResult"
    THEN [ok |-> TRUE,
          raw |-> IF v.OSBuildOutput.nil THEN <<"{", "}">>
                  ELSE <<"{", "osbuild_output", "{", "success",
                         IF v.OSBuildOutput.Success THEN "true" ELSE "false", "}", "}">>]
    ELSE [ok |-> TRUE, raw |-> <<"{", "I", Itoa(v.I), "S", v.S, "}">>]

(* Destinations a caller hands to Dequeue for the arguments: a pointer to *)
(* a zero `argument` struct, a pointer to a json.RawMessage, or nil.      *)
OutStruct == "struct"
OutRaw == "raw"
OutNil == "nil"

(* What the destination holds: for a struct destination the decoded      *)
(* value, for a raw destination the bytes.                                *)
OutValue(k, v, r) == [kind |-> k, val |-> v, raw |-> r]

NoOut == OutValue(OutNil, ZeroValue, NoRaw)

(* json.Unmarshal(raw, out): [ok, out]. A nil destination and a document *)
(* that is no object are errors.                                          *)
Unmarshal(raw, out) ==
    IF out = OutNil
    THEN [ok |-> FALSE, out |-> NoOut]
    ELSE IF out = OutRaw
    THEN [ok |-> TRUE, out |-> OutValue(OutRaw, ZeroValue, raw)]
    ELSE IF Len(raw) = 6 /\ raw[1] = "{" /\ raw[2] = "I" /\ raw[4] = "S" /\ raw[6] = "}"
    THEN [ok |-> TRUE, out |-> OutValue(OutStruct, Value("struct", Atoi(raw[3]), raw[5]), NoRaw)]
    ELSE [ok |-> FALSE, out |-> NoOut]

(* The JSON document a filled destination stands for. *)
OutJSON(o) == IF o.kind = OutRaw THEN o.raw ELSE Marshal(o.val).raw

----------------------------------------------------------------------------
(* Job documents (type job) and the jsondb directory. *)

Job(id, ty, a, ds, r, st, q, s, f) ==
    [id |-> id, type |-> ty, args |-> a, deps |-> ds, result |-> r,
     status |-> st, queuedAt |-> q, startedAt |-> s, finishedAt |-> f]

NoJob == Job(NilId, "", NoRaw, {}, NoRaw, "", ZeroTime, ZeroTime, ZeroTime)

(* q.db.Read via readJob: [ok, j]; ok is FALSE for jobqueue.ErrNotExist. *)
ReadJob(id) ==
    IF id \in DOMAIN db
    THEN [ok |-> TRUE, j |-> db[id]]
    ELSE [ok |-> FALSE, j |-> NoJob]

(* q.db.Write(id.String(), j): the directory after the atomic write. *)
DbWrite(id, j) ==
    [x \in (DOMAIN db) \cup {id} |-> IF x = id THEN j ELSE db[x]]

(* uniqueUUIDList: duplicates collapse; the order of the resulting list  *)
(* follows the (random) ids, so the list is kept as the set of its       *)
(* elements and every traversal may take them in any order.              *)
uniqueUUIDList(ids) == ids

(* The increment of countFinishedJobs for one document read. *)
CountOne(j) == IF j.status = JobFinished THEN 1 ELSE 0

(* A count that takes every dependency for finished. *)
countAllJobs(ids) == [ok |-> TRUE, n |-> Cardinality(ids)]

(* countFinishedJobs over a directory that no other goroutine writes     *)
(* meanwhile (fsjobqueue.New runs before the queue is handed out).       *)
countFinishedJobs(ids) ==
    IF \E d \in ids : ~ReadJob(d).ok
    THEN [ok |-> FALSE, n |-> 0]
    ELSE [ok |-> TRUE, n |-> Cardinality({d \in ids : db[d].status = JobFinished})]

(* The test `n == len(j.Dependencies)`. *)
AllFinished(n, ds) == n = Cardinality(ds)

(* q.dependants[id], the nil slice when the key is absent. *)
Dependants(id) == IF id \in DOMAIN dependants THEN dependants[id] ELSE << >>

(* q.dependants[dep] = append(q.dependants[dep], id) for every dep in ds. *)
AddDependant(m, ds, id) ==
    [x \in (DOMAIN m) \cup ds |->
        IF x \in ds
        THEN Append(IF x \in DOMAIN m THEN m[x] ELSE << >>, id)
        ELSE m[x]]

(* delete(q.dependants, id) *)
DeleteDependants(m, id) == [x \in (DOMAIN m) \ {id} |-> m[x]]

(* pendingChannel(jobType): channels are created on demand; a channel    *)
(* that was never created and an empty one behave alike.                 *)
pendingChannel(ty) == pending[ty]

(* A send on a pending channel proceeds only below its capacity. *)
CanSend(ty) == Len(pendingChannel(ty)) < ChanCap

(* A send that puts the id at the front of the channel. *)
SendFront(ty, id) == [pending EXCEPT ![ty] = <<id>> \o @]

Send(ty, id) == [pending EXCEPT ![ty] = Append(@, id)]

(* The map m with key k set to v. *)
Extend(m, k, v) == [x \in (DOMAIN m) \cup {k} |-> IF x = k THEN v ELSE m[x]]

BumpCount(f, id) == [f EXCEPT ![id] = @ + 1]

(* time.Now() *)
Now == clock

----------------------------------------------------------------------------
(* Goroutines calling the queue. th[t] holds the position (pc) of the     *)
(* operation t runs and that operation's local variables:                 *)
(*   j      the job document the operation builds or read                 *)
(*   at     the time of that read: a time stamp the operation takes       *)
(*          between the read and its write lies between at and Now        *)
(*   todo   the ids countFinishedJobs still has to read, n its counter    *)
(*   list   the rest of the range over q.dependants[id] in FinishJob      *)
(*   dj     the dependant's document read in that loop                    *)
(*   types, out   Dequeue's jobTypes and destination                      *)
(*   res    the marshalled result FinishJob was given                     *)
(*   rid    the id Dequeue received, the id FinishJob was given           *)
(*   outv   what Dequeue left in its destination                          *)

NoErr == "nil"
ErrNotExist == "ErrNotExist"
ErrNotRunning == "ErrNotRunning"
ErrMarshal == "marshal"
ErrUnmarshal == "unmarshal"
ErrWrite == "write"
ErrCtx == "context.Canceled"

Local(pc, op, j, at, todo, n, list, dj, types, out, res, rid, outv) ==
    [pc |-> pc, op |-> op, j |-> j, at |-> at, todo |-> todo, n |-> n,
     list |-> list, dj |-> dj, types |-> types, out |-> out, res |-> res,
     rid |-> rid, outv |-> outv]

Idle == Local("idle", "", NoJob, ZeroTime, {}, 0, << >>, NoJob, {}, OutNil, NoRaw, NilId, NoOut)

(* A call of op by t returned (id, err); arg is the id it was given      *)
(* (FinishJob) or received (Dequeue), outv what is in its destination,   *)
(* types the job types a Dequeue asked for.                               *)
Event(t, op, arg, id, err, outv) ==
    [t |-> t, op |-> op, arg |-> arg, id |-> id, err |-> err, outv |-> outv,
     types |-> {}]

NoEvent == Event("", "", NilId, NilId, NoErr, NoOut)

At(t, pc) == th[t].pc = pc

(* t moves on within its operation. *)
Goto(t, l) == th' = [th EXCEPT ![t] = l] /\ last' = NoEvent /\ UNCHANGED svars

(* t's operation returns. *)
Ret(t, op, arg, id, err, outv) ==
    /\ th' = [th EXCEPT ![t] = Idle]
    /\ last' = [Event(t, op, arg, id, err, outv) EXCEPT !.types = th[t].types]
    /\ UNCHANGED svars

Up == phase = "up"

----------------------------------------------------------------------------
(* Enqueue (lines 273-315). *)

(* A document built without the marshalled arguments. *)
NewJobNoArgs(id, ty, raw, ds) ==
    Job(id, ty, NoRaw, uniqueUUIDList(ds), NoRaw, JobPending, Now, ZeroTime, ZeroTime)

(* The job document Enqueue builds (lines 274-280, 283). *)
NewJob(id, ty, raw, ds) ==
    Job(id, ty, raw, uniqueUUIDList(ds), NoRaw, JobPending, Now, ZeroTime, ZeroTime)

(* Lines 274-286: build the document, marshal the arguments. *)
EnqueueCall(t, ty, a, ds) ==
    /\ Up /\ At(t, "idle")
    /\ nextId' = nextId + 1
    /\ enqPrior' = Extend(enqPrior, nextId, enqDone)
    /\ enqArgs' = Extend(enqArgs, nextId, a)
    /\ deqCount' = Extend(deqCount, nextId, 0)
    /\ pushed' = Extend(pushed, nextId, 0)
    /\ LET m == Marshal(a)
           j == NewJob(nextId, ty, m.raw, ds)
       IN IF ~m.ok
          THEN Ret(t, "Enqueue", NilId, NilId, ErrMarshal, NoOut)
          ELSE Goto(t, [Idle EXCEPT !.pc = "enq_count", !.op = "Enqueue",
                                    !.j = j, !.todo = j.deps])
    /\ UNCHANGED <<db, pending, dependants, mutex, clock, phase, nw, restarts,
                   received, enqDone, loaded, startRunning>>

(* Lines 289-292, one iteration of countFinishedJobs (lines 440-448). *)
EnqueueCount(t) ==
    /\ Up /\ At(t, "enq_count")
    /\ \E d \in th[t].todo :
         LET r == ReadJob(d)
         IN IF ~r.ok
            THEN Ret(t, "Enqueue", NilId, NilId, ErrNotExist, NoOut)
            ELSE Goto(t, [th[t] EXCEPT !.todo = @ \ {d}, !.n = @ + CountOne(r.j)])
    /\ UNCHANGED <<db, pending, dependants, mutex, nextId, clock, phase, nw,
                   restarts, hist>>

(* A write that fails after the document has reached the directory. *)
EnqueueWriteTorn(t, wok) ==
    /\ Up /\ At(t, "enq_count") /\ th[t].todo = {}
    /\ db' = DbWrite(th[t].j.id, th[t].j)
    /\ IF wok
       THEN Goto(t, [th[t] EXCEPT !.pc = "enq_index"])
       ELSE Ret(t, "Enqueue", NilId, NilId, ErrWrite, NoOut)
    /\ UNCHANGED <<pending, dependants, mutex, nextId, clock, phase, nw,
                   restarts, hist>>

(* Lines 296-299: write the document; wok is whether the write succeeds. *)
EnqueueWrite(t, wok) ==
    /\ Up /\ At(t, "enq_count") /\ th[t].todo = {}
    /\ IF wok
       THEN /\ db' = DbWrite(th[t].j.id, th[t].j)
            /\ Goto(t, [th[t] EXCEPT !.pc = "enq_index"])
       ELSE /\ db' = db
            /\ Ret(t, "Enqueue", NilId, NilId, ErrWrite, NoOut)
    /\ UNCHANGED <<pending, dependants, mutex, nextId, clock, phase, nw,
                   restarts, hist>>

(* Lines 304-305: every dependency has finished, send the id. *)
EnqueuePush(t) ==
    /\ Up /\ At(t, "enq_index")
    /\ AllFinished(th[t].n, th[t].j.deps)
    /\ CanSend(th[t].j.type)
    /\ pending' = Send(th[t].j.type, th[t].j.id)
    /\ pushed' = BumpCount(pushed, th[t].j.id)
    /\ enqDone' = enqDone \cup {th[t].j.id}
    /\ Ret(t, "Enqueue", NilId, th[t].j.id, NoErr, NoOut)
    /\ UNCHANGED <<db, dependants, mutex, nextId, clock, phase, nw, restarts,
                   deqCount, received, enqArgs, enqPrior, loaded, startRunning>>

(* Lines 306-311: otherwise register the job under each dependency. The   *)
(* mutex is taken and released within this step.                          *)
EnqueueDepend(t) ==
    /\ Up /\ At(t, "enq_index")
    /\ ~AllFinished(th[t].n, th[t].j.deps)
    /\ mutex = NoHolder
    /\ dependants' = AddDependant(dependants, th[t].j.deps, th[t].j.id)
    /\ enqDone' = enqDone \cup {th[t].j.id}
    /\ Ret(t, "Enqueue", NilId, th[t].j.id, NoErr, NoOut)
    /\ UNCHANGED <<db, pending, mutex, nextId, clock, phase, nw, restarts,
                   deqCount, pushed, received, enqArgs, enqPrior, loaded, startRunning>>

----------------------------------------------------------------------------
(* Dequeue (lines 317-367). *)

(* A document marked Running without the start stamp. *)
StartJobNoStamp(j, s) == [j EXCEPT !.status = JobRunning]

(* Lines 358-359: the document Dequeue writes back, stamped at time s. *)
StartJob(j, s) == [j EXCEPT !.status = JobRunning, !.startedAt = s]

(* Lines 319-336: return early on a cancelled context, else build the    *)
(* select cases.                                                          *)
DequeueCall(t, tys, out, cancelled) ==
    /\ Up /\ At(t, "idle")
    /\ IF cancelled
       THEN Ret(t, "Dequeue", NilId, NilId, ErrCtx, NoOut)
       ELSE Goto(t, [Idle EXCEPT !.pc = "deq_select", !.op = "Dequeue",
                                 !.types = tys, !.out = out])
    /\ UNCHANGED <<db, pending, dependants, mutex, nextId, clock, phase, nw,
                   restarts, hist>>

(* Lines 338-346: reflect.Select receives from one of the channels. *)
DequeueRecv(t) ==
    /\ Up /\ At(t, "deq_select")
    /\ \E ty \in th[t].types :
         /\ pendingChannel(ty) # << >>
         /\ pending' = [pending EXCEPT ![ty] = Tail(@)]
         /\ received' = received \cup {Head(pendingChannel(ty))}
         /\ Goto(t, [th[t] EXCEPT !.pc = "deq_read", !.rid = Head(pendingChannel(ty))])
    /\ UNCHANGED <<db, dependants, mutex, nextId, clock, phase, nw, restarts,
                   deqCount, pushed, enqArgs, enqDone, enqPrior, loaded, startRunning>>

(* A cancellation noticed only after an id was taken off a channel. *)
DequeueCancelLate(t) ==
    /\ Up /\ At(t, "deq_select")
    /\ \E ty \in th[t].types :
         /\ pendingChannel(ty) # << >>
         /\ pending' = [pending EXCEPT ![ty] = Tail(@)]
    /\ Ret(t, "Dequeue", NilId, NilId, ErrCtx, NoOut)
    /\ UNCHANGED <<db, dependants, mutex, nextId, clock, phase, nw, restarts,
                   hist>>

(* Lines 338-341: the context is cancelled while Dequeue waits. *)
DequeueCancel(t) ==
    /\ Up /\ At(t, "deq_select")
    /\ Ret(t, "Dequeue", NilId, NilId, ErrCtx, NoOut)
    /\ UNCHANGED <<db, pending, dependants, mutex, nextId, clock, phase, nw,
                   restarts, hist>>

(* Lines 348-356: read the document, unmarshal its arguments. *)
DequeueRead(t) ==
    /\ Up /\ At(t, "deq_read")
    /\ LET r == ReadJob(th[t].rid)
           u == Unmarshal(r.j.args, th[t].out)
       IN IF ~r.ok
          THEN Ret(t, "Dequeue", th[t].rid, NilId, ErrNotExist, NoOut)
          ELSE IF ~u.ok
          THEN Ret(t, "Dequeue", th[t].rid, NilId, ErrUnmarshal, NoOut)
          ELSE Goto(t, [th[t] EXCEPT !.pc = "deq_write", !.j = r.j, !.at = Now,
                                     !.outv = u.out])
    /\ UNCHANGED <<db, pending, dependants, mutex, nextId, clock, phase, nw,
                   restarts, hist>>

(* Lines 358-366: stamp the document (at time s), write it and return    *)
(* its id.                                                                *)
DequeueWrite(t, s, wok) ==
    /\ Up /\ At(t, "deq_write")
    /\ s \in th[t].at..Now
    /\ IF wok
       THEN /\ db' = DbWrite(th[t].rid, StartJob(th[t].j, s))
            /\ deqCount' = BumpCount(deqCount, th[t].j.id)
            /\ Ret(t, "Dequeue", th[t].rid, th[t].j.id, NoErr, th[t].outv)
       ELSE /\ db' = db
            /\ deqCount' = deqCount
            /\ Ret(t, "Dequeue", th[t].rid, NilId, ErrWrite, NoOut)
    /\ UNCHANGED <<pending, dependants, mutex, nextId, clock, phase, nw,
                   restarts, pushed, received, enqArgs, enqDone, enqPrior, loaded, startRunning>>

----------------------------------------------------------------------------
(* FinishJob (lines 369-411). *)

(* Lines 379-382: the document FinishJob writes back, stamped at time s. *)
FinishDoc(j, raw, s) ==
    [j EXCEPT !.status = JobFinished, !.finishedAt = s, !.result = raw]

(* A FinishJob that accepts a job in any status. *)
FinishCallAnyStatus(t, id, r) ==
    /\ Up /\ At(t, "idle")
    /\ LET rd == ReadJob(id)
           m == Marshal(r)
       IN IF ~rd.ok
          THEN Ret(t, "FinishJob", id, NilId, ErrNotExist, NoOut)
          ELSE IF ~m.ok
          THEN Ret(t, "FinishJob", id, NilId, ErrMarshal, NoOut)
          ELSE Goto(t, [Idle EXCEPT !.pc = "fin_write", !.op = "FinishJob",
                                    !.rid = id, !.j = rd.j, !.at = Now, !.res = m.raw])
    /\ UNCHANGED <<db, pending, dependants, mutex, nextId, clock, phase, nw,
                   restarts, hist>>

(* Lines 370-385: read the job, require it to be running, marshal the    *)
(* result.                                                                *)
FinishCall(t, id, r) ==
    /\ Up /\ At(t, "idle")
    /\ LET rd == ReadJob(id)
           m == Marshal(r)
       IN IF ~rd.ok
          THEN Ret(t, "FinishJob", id, NilId, ErrNotExist, NoOut)
          ELSE IF rd.j.status # JobRunning
          THEN Ret(t, "FinishJob", id, NilId, ErrNotRunning, NoOut)
          ELSE IF ~m.ok
          THEN Ret(t, "FinishJob", id, NilId, ErrMarshal, NoOut)
          ELSE Goto(t, [Idle EXCEPT !.pc = "fin_write", !.op = "FinishJob",
                                    !.rid = id, !.j = rd.j, !.at = Now, !.res = m.raw])
    /\ UNCHANGED <<db, pending, dependants, mutex, nextId, clock, phase, nw,
                   restarts, hist>>

(* Lines 379-380, 388-391: stamp the document (at time s) and write it. *)
FinishWrite(t, s, wok) ==
    /\ Up /\ At(t, "fin_write")
    /\ s \in th[t].at..Now
    /\ IF wok
       THEN /\ db' = DbWrite(th[t].rid, FinishDoc(th[t].j, th[t].res, s))
            /\ Goto(t, [th[t] EXCEPT !.pc = "fin_lock", !.j = NoJob, !.at = ZeroTime])
       ELSE /\ db' = db
            /\ Ret(t, "FinishJob", th[t].rid, NilId, ErrWrite, NoOut)
    /\ UNCHANGED <<pending, dependants, mutex, nextId, clock, phase, nw,
                   restarts, hist>>

(* Lines 393-395: take the mutex, evaluate the range expression. *)
FinishLock(t) ==
    /\ Up /\ At(t, "fin_lock")
    /\ mutex = NoHolder
    /\ mutex' = t
    /\ Goto(t, [th[t] EXCEPT !.pc = "fin_loop", !.list = Dependants(th[t].rid)])
    /\ UNCHANGED <<db, pending, dependants, nextId, clock, phase, nw, restarts,
                   hist>>

(* Lines 396-399: read the next dependant; on an error the deferred      *)
(* unlock runs.                                                           *)
FinishLoopRead(t) ==
    /\ Up /\ At(t, "fin_loop") /\ th[t].list # << >>
    /\ LET r == ReadJob(Head(th[t].list))
       IN IF ~r.ok
          THEN /\ Ret(t, "FinishJob", th[t].rid, NilId, ErrNotExist, NoOut)
               /\ mutex' = NoHolder
          ELSE /\ Goto(t, [th[t] EXCEPT !.pc = "fin_count", !.dj = r.j,
                                        !.todo = r.j.deps, !.n = 0])
               /\ mutex' = mutex
    /\ UNCHANGED <<db, pending, dependants, nextId, clock, phase, nw, restarts,
                   hist>>

(* Lines 400-403, one iteration of countFinishedJobs (lines 440-448). *)
FinishCount(t) ==
    /\ Up /\ At(t, "fin_count")
    /\ \E d \in th[t].todo :
         LET r == ReadJob(d)
         IN IF ~r.ok
            THEN /\ Ret(t, "FinishJob", th[t].rid, NilId, ErrNotExist, NoOut)
                 /\ mutex' = NoHolder
            ELSE /\ Goto(t, [th[t] EXCEPT !.todo = @ \ {d}, !.n = @ + CountOne(r.j)])
                 /\ mutex' = mutex
    /\ UNCHANGED <<db, pending, dependants, nextId, clock, phase, nw, restarts,
                   hist>>

(* Lines 404-406: the dependant is ready, send its id. *)
FinishPush(t) ==
    /\ Up /\ At(t, "fin_count") /\ th[t].todo = {}
    /\ AllFinished(th[t].n, th[t].dj.deps)
    /\ CanSend(th[t].dj.type)
    /\ pending' = Send(th[t].dj.type, th[t].dj.id)
    /\ pushed' = BumpCount(pushed, th[t].dj.id)
    /\ Goto(t, [th[t] EXCEPT !.pc = "fin_loop", !.list = Tail(@), !.dj = NoJob, !.n = 0])
    /\ UNCHANGED <<db, dependants, mutex, nextId, clock, phase, nw, restarts,
                   deqCount, received, enqArgs, enqDone, enqPrior, loaded, startRunning>>

(* Line 404: the dependant still waits for another dependency. *)
FinishSkip(t) ==
    /\ Up /\ At(t, "fin_count") /\ th[t].todo = {}
    /\ ~AllFinished(th[t].n, th[t].dj.deps)
    /\ Goto(t, [th[t] EXCEPT !.pc = "fin_loop", !.list = Tail(@), !.dj = NoJob, !.n = 0])
    /\ UNCHANGED <<db, pending, dependants, mutex, nextId, clock, phase, nw,
                   restarts, hist>>

(* Lines 408-410: drop the entry, release the mutex, return. *)
FinishUnlock(t) ==
    /\ Up /\ At(t, "fin_loop") /\ th[t].list = << >>
    /\ dependants' = DeleteDependants(dependants, th[t].rid)
    /\ mutex' = NoHolder
    /\ Ret(t, "FinishJob", th[t].rid, NilId, NoErr, NoOut)
    /\ UNCHANGED <<db, pending, nextId, clock, phase, nw, restarts, hist>>

----------------------------------------------------------------------------
(* fsjobqueue.New (lines 228-271), run on the directory a crashed or     *)
(* stopped process left behind. nw holds its locals: the ids db.List     *)
(* returned and are still to be visited, the document read, the count.   *)

NewLocal(pc, ids, j, n) == [pc |-> pc, ids |-> ids, j |-> j, n |-> n]

NewIdle == NewLocal("none", {}, NoJob, 0)

EmptyChannels == [ty \in JobTypes |-> << >>]

EmptyMap == << >>

(* The process stops at any point: goroutines, channels and maps are    *)
(* gone, the directory stays. A new process calls New (lines 229-239).   *)
Crash ==
    /\ restarts < MaxRestarts
    /\ restarts' = restarts + 1
    /\ phase' = "new"
    /\ nw' = NewLocal("list", DOMAIN db, NoJob, 0)
    /\ pending' = EmptyChannels
    /\ dependants' = EmptyMap
    /\ mutex' = NoHolder
    /\ th' = [t \in Threads |-> Idle]
    /\ last' = NoEvent
    /\ pushed' = [id \in DOMAIN pushed |-> 0]
    /\ loaded' = DOMAIN db
    /\ startRunning' = {id \in DOMAIN db : db[id].status = JobRunning}
    /\ UNCHANGED <<db, nextId, clock, deqCount, received, enqArgs, enqDone, enqPrior, svars>>

(* A New that reschedules every job that is not Finished. *)
NewReadUnfinished ==
    /\ phase = "new" /\ nw.pc = "list"
    /\ \E id \in nw.ids :
         LET r == ReadJob(id)
         IN IF r.j.status = JobFinished
            THEN nw' = [nw EXCEPT !.ids = @ \ {id}]
            ELSE nw' = [nw EXCEPT !.pc = "lock", !.j = r.j]
    /\ last' = NoEvent
    /\ UNCHANGED <<db, pending, dependants, mutex, th, nextId, clock, phase,
                   restarts, hist, svars>>

(* Lines 240-252: visit the next listed job, skip it unless it is Pending. *)
NewRead ==
    /\ phase = "new" /\ nw.pc = "list"
    /\ \E id \in nw.ids :
         LET r == ReadJob(id)
         IN IF r.j.status # JobPending
            THEN nw' = [nw EXCEPT !.ids = @ \ {id}]
            ELSE nw' = [nw EXCEPT !.pc = "lock", !.j = r.j]
    /\ last' = NoEvent
    /\ UNCHANGED <<db, pending, dependants, mutex, th, nextId, clock, phase,
                   restarts, hist, svars>>

(* Lines 254-264: take the mutex (released only by the deferred unlock   *)
(* when New returns), register the job under its dependencies, count the *)
(* finished ones.                                                         *)
NewLock ==
    /\ phase = "new" /\ nw.pc = "lock"
    /\ mutex = NoHolder
    /\ dependants' = AddDependant(dependants, nw.j.deps, nw.j.id)
    /\ LET c == countFinishedJobs(nw.j.deps)
       IN IF c.ok
          THEN /\ nw' = [nw EXCEPT !.pc = "push", !.n = c.n]
               /\ phase' = phase
               /\ mutex' = NewHolder
               /\ last' = NoEvent
          ELSE /\ nw' = NewIdle
               /\ phase' = "failed"
               /\ mutex' = NoHolder
               /\ last' = Event(NewHolder, "New", NilId, NilId, ErrNotExist, NoOut)
    /\ UNCHANGED <<db, pending, th, nextId, clock, restarts, hist, svars>>

(* Lines 265-267: all dependencies finished, send the id. *)
NewPush ==
    /\ phase = "new" /\ nw.pc = "push"
    /\ AllFinished(nw.n, nw.j.deps)
    /\ CanSend(nw.j.type)
    /\ pending' = Send(nw.j.type, nw.j.id)
    /\ pushed' = BumpCount(pushed, nw.j.id)
    /\ nw' = NewLocal("list", nw.ids \ {nw.j.id}, NoJob, 0)
    /\ last' = NoEvent
    /\ UNCHANGED <<db, dependants, mutex, th, nextId, clock, phase, restarts,
                   deqCount, received, enqArgs, enqDone, enqPrior, loaded, startRunning, svars>>

(* Line 265: the job still waits for a dependency. *)
NewSkip ==
    /\ phase = "new" /\ nw.pc = "push"
    /\ ~AllFinished(nw.n, nw.j.deps)
    /\ nw' = NewLocal("list", nw.ids \ {nw.j.id}, NoJob, 0)
    /\ last' = NoEvent
    /\ UNCHANGED <<db, pending, dependants, mutex, th, nextId, clock, phase,
                   restarts, hist, svars>>

(* Line 270: every listed job was visited; the deferred unlocks run and  *)
(* the queue is handed to its callers.                                    *)
NewReturn ==
    /\ phase = "new" /\ nw.pc = "list" /\ nw.ids = {}
    /\ phase' = "up"
    /\ nw' = NewIdle
    /\ mutex' = NoHolder
    /\ last' = Event(NewHolder, "New", NilId, NilId, NoErr, NoOut)
    /\ UNCHANGED <<db, pending, dependants, th, nextId, clock, restarts, hist, svars>>

NewStep == NewRead \/ NewLock \/ NewPush \/ NewSkip \/ NewReturn

(* The wall clock advances. *)
Tick ==
    /\ clock < MaxTime
    /\ clock' = clock + 1
    /\ last' = NoEvent
    /\ UNCHANGED <<db, pending, dependants, mutex, th, nextId, phase, nw,
                   restarts, hist, svars>>

----------------------------------------------------------------------------
(* The state after New returned on an empty directory. *)
Init ==
    /\ db = EmptyMap
    /\ pending = EmptyChannels
    /\ dependants = EmptyMap
    /\ mutex = NoHolder
    /\ th = [t \in Threads |-> Idle]
    /\ nextId = 1
    /\ clock = 1
    /\ phase = "up"
    /\ nw = NewIdle
    /\ restarts = 0
    /\ last = NoEvent
    /\ deqCount = EmptyMap
    /\ pushed = EmptyMap
    /\ received = {}
    /\ enqArgs = EmptyMap
    /\ enqDone = {}
    /\ enqPrior = EmptyMap
    /\ loaded = {}
    /\ startRunning = {}
    /\ store = [Blueprints |-> << >>, Workspace |-> << >>, Composes |-> << >>,
                Sources |-> << >>, BlueprintsChanges |-> << >>,
                BlueprintsCommits |-> << >>]
    /\ state = [absent |-> TRUE]
    /\ heap = << >>
    /\ mu = [w |-> NoHolder, r |-> {}]
    /\ sth = [t \in Threads |->
                [pc |-> "idle", op |-> "", id |-> NilId, ib |-> 0, name |-> "",
                 ns |-> 0, n |-> 0, blk |-> 0,
                 c |-> [Blueprint |-> "", ImageBuilds |-> <<0, 0, 0>>], err |-> NoErr,
                 bp |-> [Name |-> "", Version |-> << >>]]]
    /\ dirs = {}
    /\ files = << >>

(* Values callers pass. *)
ArgA == Value("struct", 7, "a")
ArgB == Value("struct", 42, "b")
ResultOK == Value("struct", 1, "ok")

(* Dependency lists a caller may pass: at most two ids out of 1..n. *)
DepSets(n) == {ds \in SUBSET (1..n) : Cardinality(ds) <= 2}

(* The steps inside the operation goroutine t runs; woks are the         *)
(* outcomes a document write may have.                                    *)
Step(t, woks) ==
    \/ EnqueueCount(t)
    \/ \E wok \in woks : EnqueueWrite(t, wok)
    \/ EnqueuePush(t)
    \/ EnqueueDepend(t)
    \/ DequeueRecv(t)
    \/ DequeueRead(t)
    \/ \E s \in 1..MaxTime, wok \in woks : DequeueWrite(t, s, wok)
    \/ \E s \in 1..MaxTime, wok \in woks : FinishWrite(t, s, wok)
    \/ FinishLock(t)
    \/ FinishLoopRead(t)
    \/ FinishCount(t)
    \/ FinishPush(t)
    \/ FinishSkip(t)
    \/ FinishUnlock(t)

(* The jobs a worker may report as done: those Running on disk. *)
RunningJobs == {id \in DOMAIN db : db[id].status = JobRunning}

(* Two goroutines enqueue jobs of one type with dependencies on earlier  *)
(* jobs, dequeue them and finish running jobs, in any interleaving.      *)
Next ==
    \/ \E t \in Threads, ds \in DepSets(nextId - 1) :
         nextId <= MaxJobs /\ EnqueueCall(t, "fish", ArgA, ds)
    \/ \E t \in Threads : DequeueCall(t, {"fish"}, OutRaw, FALSE)
    \/ \E t \in Threads, id \in RunningJobs : FinishCall(t, id, ResultOK)
    \/ \E t \in Threads : Step(t, {TRUE})

Spec == Init /\ [][Next]_vars

(* The operations of Spec with callers that hand Dequeue a destination  *)
(* the arguments cannot be unmarshalled into (nil).                       *)
NextUnmarshal ==
    \/ \E t \in Threads, ds \in DepSets(nextId - 1) :
         nextId <= MaxJobs /\ EnqueueCall(t, "fish", ArgA, ds)
    \/ \E t \in Threads, out \in {OutRaw, OutNil} : DequeueCall(t, {"fish"}, out, FALSE)
    \/ \E t \in Threads, id \in RunningJobs : FinishCall(t, id, ResultOK)
    \/ \E t \in Threads : Step(t, {TRUE})

SpecUnmarshal == Init /\ [][NextUnmarshal]_vars

(* A chain of dependencies: jobs 1 and 2 are free, job 3 depends on both, *)
(* every later job on its predecessor.                                     *)
ChainDeps(n) == IF n <= 2 THEN {} ELSE IF n = 3 THEN {1, 2} ELSE {n - 1}

NextChain ==
    \/ \E t \in Threads :
         nextId <= MaxChain /\ EnqueueCall(t, "fish", ArgA, ChainDeps(nextId))
    \/ \E t \in Threads : DequeueCall(t, {"fish"}, OutRaw, FALSE)
    \/ \E t \in Threads, id \in RunningJobs : FinishCall(t, id, ResultOK)
    \/ \E t \in Threads : Step(t, {TRUE})

SpecChain == Init /\ [][NextChain]_vars

(* The process may stop and start again on the directory it left: the   *)
(* operations of SpecChain, a crash at any point, and the steps of New.  *)
NextRestart ==
    \/ \E t \in Threads :
         nextId <= MaxRestartJobs /\ EnqueueCall(t, "fish", ArgA, ChainDeps(nextId))
    \/ \E t \in Threads : DequeueCall(t, {"fish"}, OutRaw, FALSE)
    \/ \E t \in Threads, id \in RunningJobs : FinishCall(t, id, ResultOK)
    \/ \E t \in Threads : Step(t, {TRUE})
    \/ Crash
    \/ NewRead
    \/ NewLock
    \/ NewPush
    \/ NewSkip
    \/ NewReturn

SpecRestart == Init /\ [][NextRestart]_vars

(* One goroutine enqueues dependency-free jobs of one type; nobody       *)
(* dequeues.                                                              *)
NextBurst ==
    \/ nextId <= MaxBurst /\ EnqueueCall("t1", "fish", ArgA, {})
    \/ EnqueueWrite("t1", TRUE)
    \/ EnqueuePush("t1")

SpecBurst == Init /\ [][NextBurst]_vars

(* Dependency lists of at most one id out of 1..n. *)
SingleDeps(n) == {ds \in SUBSET (1..n) : Cardinality(ds) <= 1}

(* The operations of Spec on jobs with at most one dependency, while the *)
(* wall clock advances. The one dependency FinishJob counts for a        *)
(* dependant is the job it has just written as Finished, so the test of  *)
(* line 404 never fails here.                                             *)
NextTime ==
    \/ \E t \in Threads, ds \in SingleDeps(nextId - 1) :
         nextId <= MaxTimedJobs /\ EnqueueCall(t, "fish", ArgA, ds)
    \/ \E t \in Threads : DequeueCall(t, {"fish"}, OutRaw, FALSE)
    \/ \E t \in Threads, id \in RunningJobs : FinishCall(t, id, ResultOK)
    \/ \E t \in Threads : EnqueueCount(t)
    \/ \E t \in Threads : EnqueueWrite(t, TRUE)
    \/ \E t \in Threads : EnqueuePush(t)
    \/ \E t \in Threads : EnqueueDepend(t)
    \/ \E t \in Threads : DequeueRecv(t)
    \/ \E t \in Threads : DequeueRead(t)
    \/ \E t \in Threads, s \in 1..MaxTime : DequeueWrite(t, s, TRUE)
    \/ \E t \in Threads, s \in 1..MaxTime : FinishWrite(t, s, TRUE)
    \/ \E t \in Threads : FinishLock(t)
    \/ \E t \in Threads : FinishLoopRead(t)
    \/ \E t \in Threads : FinishCount(t)
    \/ \E t \in Threads : FinishPush(t)
    \/ \E t \in Threads : FinishUnlock(t)
    \/ Tick

SpecTime == Init /\ [][NextTime]_vars

(* Dependency-free jobs of two types with different arguments, dequeued  *)
(* for any set of types into a struct or a raw destination.              *)
NextArgs ==
    \/ \E t \in Threads, ty \in JobTypes, a \in {ArgA, ArgB} :
         nextId <= MaxArgJobs /\ EnqueueCall(t, ty, a, {})
    \/ \E t \in Threads, tys \in (SUBSET JobTypes) \ {{}}, out \in {OutStruct, OutRaw} :
         DequeueCall(t, tys, out, FALSE)
    \/ \E t \in Threads : EnqueueWrite(t, TRUE)
    \/ \E t \in Threads : EnqueuePush(t)
    \/ \E t \in Threads : DequeueRecv(t)
    \/ \E t \in Threads : DequeueRead(t)
    \/ \E t \in Threads, s \in 1..MaxTime : DequeueWrite(t, s, TRUE)

SpecArgs == Init /\ [][NextArgs]_vars

(* Calls that fail: arguments that cannot be marshalled, dependencies on *)
(* ids of no job, document writes that fail, cancelled contexts,         *)
(* FinishJob for any id and with a result that cannot be marshalled.     *)
(* Jobs have at most one dependency, so the test of line 404 never fails *)
(* (see NextTime).                                                        *)
NextErrors ==
    \/ \E t \in Threads, a \in {ArgA, ChanValue}, ds \in SingleDeps(nextId) :
         nextId <= MaxErrJobs /\ EnqueueCall(t, "fish", a, ds)
    \/ \E t \in Threads, c \in BOOLEAN : DequeueCall(t, {"fish"}, OutRaw, c)
    \/ \E t \in Threads, id \in 1..nextId, r \in {ResultOK, ChanValue} :
         FinishCall(t, id, r)
    \/ \E t \in Threads : EnqueueCount(t)
    \/ \E t \in Threads, wok \in BOOLEAN : EnqueueWrite(t, wok)
    \/ \E t \in Threads : EnqueuePush(t)
    \/ \E t \in Threads : EnqueueDepend(t)
    \/ \E t \in Threads : DequeueRecv(t)
    \/ \E t \in Threads : DequeueCancel(t)
    \/ \E t \in Threads : DequeueRead(t)
    \/ \E t \in Threads, s \in 1..MaxTime, wok \in BOOLEAN : DequeueWrite(t, s, wok)
    \/ \E t \in Threads, s \in 1..MaxTime, wok \in BOOLEAN : FinishWrite(t, s, wok)
    \/ \E t \in Threads : FinishLock(t)
    \/ \E t \in Threads : FinishLoopRead(t)
    \/ \E t \in Threads : FinishCount(t)
    \/ \E t \in Threads : FinishPush(t)
    \/ \E t \in Threads : FinishUnlock(t)

SpecErrors == Init /\ [][NextErrors]_vars

----------------------------------------------------------------------------
(* The compose store (internal/store, internal/compose, internal/common).  *)

(* common.ImageBuildState *)
IBWaiting == 0
IBRunning == 1
IBFinished == 2
IBFailed == 3

ImageBuildStates == {IBWaiting, IBRunning, IBFinished, IBFailed}

(* A value of type ImageBuildState that is none of the four constants. *)
IBInvalid == 4

getStateMapping == <<"WAITING", "RUNNING", "FINISHED", "FAILED">>

(* ImageBuildState.MarshalJSON *)
StateToJSON(ibs) == getStateMapping[ibs + 1]

(* unmarshalStateHelper: [ok, val]. *)
StateFromJSON(str) ==
    IF \E n \in 1..Len(getStateMapping) : getStateMapping[n] = str
    THEN [ok |-> TRUE,
          val |-> (CHOOSE n \in 1..Len(getStateMapping) : getStateMapping[n] = str) - 1]
    ELSE [ok |-> FALSE, val |-> 0]

(* A field left out of the document by `omitempty`. *)
Omitted == "omitted"

(* Objects reached through pointers and slices live in heap. An address  *)
(* is <<b, i, k>>: b numbers the block allocated for one compose value,  *)
(* <<b, 0, 0>> is the backing array of its ImageBuilds slice and         *)
(* <<b, i, k>> the k-th target of its i-th image build.                  *)
BuildsAddr(b) == <<b, 0, 0>>
TargetAddr(b, i, k) == <<b, i, k>>

(* target.Target, as far as the store looks at it. *)
Target(st) == [Status |-> st]

(* compose.ImageBuild *)
ImageBuild(qs, tgs, created, started, finished, jobId) ==
    [QueueStatus |-> qs, Targets |-> tgs, JobCreated |-> created,
     JobStarted |-> started, JobFinished |-> finished, JobId |-> jobId]

(* compose.Compose: the ImageBuilds slice is the address of its array. *)
Compose(bp, a) == [Blueprint |-> bp, ImageBuilds |-> a]

NoCompose == Compose("", BuildsAddr(0))

(* The image builds of compose c, c.ImageBuilds[i] for the Go index i. *)
Builds(h, c) == h[c.ImageBuilds]
Build(h, c, i) == h[c.ImageBuilds][i + 1]

(* The heap h with the Go assignment c.ImageBuilds[i].QueueStatus = ns. *)
SetQueueStatus(h, c, i, ns) ==
    [h EXCEPT ![c.ImageBuilds] = [@ EXCEPT ![i + 1].QueueStatus = ns]]

(* The heap h with t.Status = ns for every t of tgs (lines 118-120). *)
SetTargets(h, tgs, ns) ==
    [a \in DOMAIN h |->
        IF \E k \in 1..Len(tgs) : tgs[k] = a THEN [h[a] EXCEPT !.Status = ns] ELSE h[a]]

(* An UpdateState that lets a build leave a terminal state. *)
UpdateStateLax(h, c, i, ns) ==
    IF ns \in ImageBuildStates
    THEN [ok |-> TRUE, heap |-> SetQueueStatus(h, c, i, ns)]
    ELSE [ok |-> FALSE, heap |-> h]

(* Compose.UpdateState(imageBuildId, newState) on the heap h: [ok, heap], *)
(* ok FALSE for a StateTransitionError.                                   *)
UpdateState(h, c, i, ns) ==
    LET qs == Build(h, c, i).QueueStatus
    IN IF ns = IBWaiting
       THEN [ok |-> FALSE, heap |-> h]
       ELSE IF ns = IBRunning
       THEN IF qs = IBWaiting \/ qs = IBRunning
            THEN [ok |-> TRUE, heap |-> SetQueueStatus(h, c, i, ns)]
            ELSE [ok |-> FALSE, heap |-> h]
       ELSE IF ns = IBFinished \/ ns = IBFailed
       THEN IF qs = IBRunning
            THEN [ok |-> TRUE,
                  heap |-> SetTargets(SetQueueStatus(h, c, i, ns),
                                      Build(h, c, i).Targets, ns)]
            ELSE [ok |-> FALSE, heap |-> h]
       ELSE [ok |-> FALSE, heap |-> h]

(* The exported fields of Store (lines 41-46). *)
StoreRec(bps, ws, cs, srcs, chs, cms) ==
    [Blueprints |-> bps, Workspace |-> ws, Composes |-> cs, Sources |-> srcs,
     BlueprintsChanges |-> chs, BlueprintsCommits |-> cms]

EmptyStore == StoreRec(EmptyMap, EmptyMap, EmptyMap, EmptyMap, EmptyMap, EmptyMap)

EmptyHeap == << >>

(* state.json does not exist. *)
NoDoc == [absent |-> TRUE]

(* json.Marshal of the store (line 225): slices and pointers are written *)
(* by value, states by name, a Waiting queue_status is omitted.          *)
EncodeBuild(h, ib) ==
    [queue_status |-> IF ib.QueueStatus = IBWaiting THEN Omitted
                      ELSE StateToJSON(ib.QueueStatus),
     targets |-> [k \in 1..Len(ib.Targets) |->
                     [status |-> StateToJSON(h[ib.Targets[k]].Status)]],
     job_created |-> ib.JobCreated, job_started |-> ib.JobStarted,
     job_finished |-> ib.JobFinished, jobid |-> ib.JobId]

EncodeCompose(h, c) ==
    [blueprint |-> c.Blueprint,
     image_builds |-> [i \in 1..Len(Builds(h, c)) |-> EncodeBuild(h, Builds(h, c)[i])]]

Encode(st, h) ==
    [blueprints |-> st.Blueprints, workspace |-> st.Workspace,
     composes |-> [c \in DOMAIN st.Composes |-> EncodeCompose(h, st.Composes[c])],
     sources |-> st.Sources, changes |-> st.BlueprintsChanges,
     commits |-> st.BlueprintsCommits]

(* json.Unmarshal of state.json into a fresh Store (line 113): the block *)
(* of a compose is its rank among the ids of the document.               *)
BlockOf(doc, c) == Cardinality({d \in DOMAIN doc.composes : d <= c})

DecodeState(js) == IF js = Omitted THEN IBWaiting ELSE StateFromJSON(js).val

DecodeBuild(b, i, jb) ==
    ImageBuild(DecodeState(jb.queue_status),
               [k \in 1..Len(jb.targets) |-> TargetAddr(b, i, k)],
               jb.job_created, jb.job_started, jb.job_finished, jb.jobid)

DecodeStore(doc) ==
    StoreRec(doc.blueprints, doc.workspace,
             [c \in DOMAIN doc.composes |->
                 Compose(doc.composes[c].blueprint, BuildsAddr(BlockOf(doc, c)))],
             doc.sources, doc.changes, doc.commits)

(* The compose of the document whose block is b. *)
ComposeOfBlock(doc, b) == CHOOSE c \in DOMAIN doc.composes : BlockOf(doc, c) = b

DecodeAddrs(doc) ==
    UNION {{BuildsAddr(BlockOf(doc, c))} \cup
           UNION {{TargetAddr(BlockOf(doc, c), i, k) :
                      k \in 1..Len(doc.composes[c].image_builds[i].targets)} :
                  i \in 1..Len(doc.composes[c].image_builds)} :
           c \in DOMAIN doc.composes}

DecodeHeap(doc) ==
    [a \in DecodeAddrs(doc) |->
        LET jc == doc.composes[ComposeOfBlock(doc, a[1])]
        IN IF a[2] = 0
           THEN [i \in 1..Len(jc.image_builds) |-> DecodeBuild(a[1], i, jc.image_builds[i])]
           ELSE Target(StateFromJSON(jc.image_builds[a[2]].targets[a[3]].status).val)]

(* A New that takes the builds as it finds them. *)
KeepUnfinished(h) == h

(* Lines 135-146: every build found Waiting or Running is set to Failed. *)
FailUnfinished(h) ==
    [a \in DOMAIN h |->
        IF a[2] = 0
        THEN [i \in 1..Len(h[a]) |->
                 IF h[a][i].QueueStatus \in {IBRunning, IBWaiting}
                 THEN [h[a][i] EXCEPT !.QueueStatus = IBFailed]
                 ELSE h[a][i]]
        ELSE h[a]]

(* store.New(stateDir) on the document doc: the store and its heap. *)
LoadStore(doc) == IF "composes" \notin DOMAIN doc THEN EmptyStore ELSE DecodeStore(doc)
LoadHeap(doc) == IF "composes" \notin DOMAIN doc THEN EmptyHeap ELSE FailUnfinished(DecodeHeap(doc))

(* blueprint.Blueprint, as far as the store looks at it: its name and   *)
(* its version. A version is empty, a semantic version (a triple) or a   *)
(* string that is no version.                                             *)
Blueprint(name, version) == [Name |-> name, Version |-> version]
EmptyVersion == << >>
InvalidVersion == <<"x">>
NoBlueprint == Blueprint("", EmptyVersion)

(* semver.NewVersion, with 0.0.0 for what does not parse (lines 172-180). *)
NewVersion(v) == IF Len(v) = 3 THEN v ELSE <<0, 0, 0>>

(* semver.Version.LessThan *)
LessThan(v, w) ==
    \/ v[1] < w[1]
    \/ v[1] = w[1] /\ v[2] < w[2]
    \/ v[1] = w[1] /\ v[2] = w[2] /\ v[3] < w[3]

(* Blueprint.Initialize succeeds: the version is empty or valid. *)
Initialize(bp) == bp.Version = EmptyVersion \/ Len(bp.Version) = 3

(* Blueprint.BumpVersion(old): one patch level above old. *)
BumpVersion(bp, old) == [bp EXCEPT !.Version = [NewVersion(old) EXCEPT ![3] = @ + 1]]

(* blueprint.Change; Revision is a pointer: << >> for nil, <<r>> for r. *)
Change(commit, message, timestamp, bp, revision) ==
    [Commit |-> commit, Message |-> message, Timestamp |-> timestamp,
     Blueprint |-> bp, Revision |-> revision]

NoRevision == << >>

(* s.BlueprintsChanges[name] and s.BlueprintsCommits[name], with Go's    *)
(* zero value for a missing key.                                          *)
ChangesOf(st, name) ==
    IF name \in DOMAIN st.BlueprintsChanges THEN st.BlueprintsChanges[name] ELSE << >>

CommitsOf(st, name) ==
    IF name \in DOMAIN st.BlueprintsCommits THEN st.BlueprintsCommits[name] ELSE << >>

(* A less that compares the versions first. *)
ChangeLessByVersion(a, b) ==
    IF NewVersion(a.Blueprint.Version) = NewVersion(b.Blueprint.Version)
    THEN a.Timestamp < b.Timestamp
    ELSE LessThan(NewVersion(a.Blueprint.Version), NewVersion(b.Blueprint.Version))

(* Lines 171-184: the less of the sort: by Timestamp, then by version.  *)
ChangeLess(a, b) ==
    IF a.Timestamp = b.Timestamp
    THEN LessThan(NewVersion(a.Blueprint.Version), NewVersion(b.Blueprint.Version))
    ELSE a.Timestamp < b.Timestamp

(* The orders in which the keys of a map can be listed. *)
Orders(S) ==
    {o \in [1..Cardinality(S) -> S] : \A i, j \in 1..Cardinality(S) : o[i] = o[j] => i = j}

(* Lines 164-192: the commit lists the rebuild of a name can produce:   *)
(* the changes are collected in the order of the map's iteration and     *)
(* sorted by sort.Slice, which is not stable, so changes that are equal  *)
(* under less come out in any order; the list holds their Commit fields. *)
SortedCommits(chs) ==
    {[i \in 1..Len(o) |-> chs[o[i]].Commit] :
        o \in {p \in Orders(DOMAIN chs) :
                  \A i, j \in 1..Len(p) : i < j => ~ChangeLess(chs[p[j]], chs[p[i]])}}

(* Lines 163-195: BlueprintsCommits of every name whose number of        *)
(* changes is not the length of its commit list is rebuilt.               *)
Rebuilt(st) ==
    LET names == DOMAIN st.BlueprintsChanges
        stale == {n \in names :
                    Cardinality(DOMAIN st.BlueprintsChanges[n]) # Len(CommitsOf(st, n))}
    IN {[st EXCEPT !.BlueprintsCommits =
                      [n \in (DOMAIN @) \cup stale |-> IF n \in stale THEN f[n] ELSE @[n]]] :
           f \in {g \in [stale -> UNION {SortedCommits(st.BlueprintsChanges[n]) : n \in stale}] :
                     \A n \in stale : g[n] \in SortedCommits(st.BlueprintsChanges[n])}}

(* The stores store.New(stateDir) can return for the document doc. *)
NewStores(doc) == Rebuilt(LoadStore(doc))

(* Lines 291-303: GetBlueprintChanges: the changes in the order of the  *)
(* commit list, the zero Change for a commit the map does not have.      *)
GetBlueprintChanges(st, name) ==
    [i \in 1..Len(CommitsOf(st, name)) |->
        IF CommitsOf(st, name)[i] \in DOMAIN ChangesOf(st, name)
        THEN ChangesOf(st, name)[CommitsOf(st, name)[i]]
        ELSE Change(0, "", 0, NoBlueprint, NoRevision)]

(* Store.mu: the goroutine holding the write lock and those holding     *)
(* read locks.                                                            *)
Mu(w, r) == [w |-> w, r |-> r]
Unlocked == Mu(NoHolder, {})

(* The locals of a store operation: the compose id, image build id and  *)
(* source name it was given, the new status, the number of targets, the  *)
(* block of the objects it allocated, the compose it read, the error it  *)
(* is going to return.                                                    *)
SLocal(pc, op, id, ib, name, ns, n, blk, c, err, bp, result) ==
    [pc |-> pc, op |-> op, id |-> id, ib |-> ib, name |-> name, ns |-> ns,
     n |-> n, blk |-> blk, c |-> c, err |-> err, bp |-> bp, result |-> result]

SIdle ==
    SLocal("idle", "", NilId, 0, "", IBWaiting, 0, 0, NoCompose, NoErr, NoBlueprint, NilOutput)

SAt(t, pc) == sth[t].pc = pc

(* The variables of the job queue but last. *)
qvars == <<db, pending, dependants, mutex, th, nextId, clock, phase, nw,
           restarts, hist>>

ErrTransition == "StateTransitionError"
ErrNotFound == "NotFoundError"
ErrNotPending == "NotPendingError"
ErrInvalidRequest == "InvalidRequestError"
ErrNoLocalTarget == "NoLocalTargetError"
ErrFile == "file"
Panic == "panic"

(* Compose.UpdateState called on build i of compose c with state ns. *)
UpdateStateCall(c, i, ns) ==
    /\ c \in DOMAIN store.Composes
    /\ LET u == UpdateState(heap, store.Composes[c], i, ns)
       IN /\ heap' = u.heap
          /\ last' = Event("", "UpdateState", ns, c,
                           IF u.ok THEN NoErr ELSE ErrTransition, NoOut)
    /\ UNCHANGED <<qvars, dirs, files, store, state, mu, sth>>

(* The queue as Init leaves it. *)
QueueInit ==
    /\ db = EmptyMap
    /\ pending = EmptyChannels
    /\ dependants = EmptyMap
    /\ mutex = NoHolder
    /\ th = [t \in Threads |-> Idle]
    /\ nextId = 1
    /\ clock = 1
    /\ phase = "up"
    /\ nw = NewIdle
    /\ restarts = 0
    /\ last = NoEvent
    /\ deqCount = EmptyMap
    /\ pushed = EmptyMap
    /\ received = {}
    /\ enqArgs = EmptyMap
    /\ enqDone = {}
    /\ enqPrior = EmptyMap
    /\ loaded = {}
    /\ startRunning = {}

(* Any compose with one image build in any state and up to MaxTargets   *)
(* targets in any state.                                                  *)
InitUpdateState ==
    /\ QueueInit
    /\ store = [EmptyStore EXCEPT !.Composes = Extend(EmptyMap, 1, Compose("bp", BuildsAddr(1)))]
    /\ \E qs \in ImageBuildStates, n \in 0..MaxTargets :
         \E ts \in [1..n -> ImageBuildStates] :
            heap = [a \in {BuildsAddr(1)} \cup {TargetAddr(1, 1, k) : k \in 1..n} |->
                      IF a = BuildsAddr(1)
                      THEN <<ImageBuild(qs, [k \in 1..n |-> TargetAddr(1, 1, k)],
                                        ZeroTime, ZeroTime, ZeroTime, NilId)>>
                      ELSE Target(ts[a[3]])]
    /\ state = NoDoc
    /\ mu = Unlocked
    /\ sth = [t \in Threads |-> SIdle]
    /\ dirs = {1}
    /\ files = << >>

NextUpdateState ==
    \E ns \in ImageBuildStates \cup {IBInvalid} : UpdateStateCall(1, 0, ns)

SpecUpdateState == InitUpdateState /\ [][NextUpdateState]_vars

----------------------------------------------------------------------------
(* The operations of the store. A mutating operation runs f and the      *)
(* write of state.json under the write lock (Store.change); the steps    *)
(* are taking the lock, f with the write, and the deferred unlock.       *)

(* Compose ids and source names callers use. *)
ComposeIds == 1..MaxComposes
SourceNames == {"fedora"}

(* The blocks the store or a running operation refers to; the objects   *)
(* of any other block are garbage.                                       *)
LiveBlocks(st, ls) ==
    {st.Composes[c].ImageBuilds[1] : c \in DOMAIN st.Composes}
        \cup {ls[t].blk : t \in Threads}
        \cup {ls[t].c.ImageBuilds[1] : t \in Threads}

Collect(h, st, ls) == [a \in {x \in DOMAIN h : x[1] \in LiveBlocks(st, ls)} |-> h[a]]

(* The block a new compose value is allocated in. *)
FreshBlock ==
    CHOOSE b \in 1..(MaxComposes + Cardinality(Threads) + 1) :
        /\ b \notin LiveBlocks(store, sth)
        /\ \A b2 \in 1..(b - 1) : b2 \in LiveBlocks(store, sth)

(* The targets a caller hands to PushCompose: n targets in block b. *)
NewTargets(b, n) == [a \in {TargetAddr(b, 1, k) : k \in 1..n} |-> Target(IBWaiting)]
TargetList(b, n) == [k \in 1..n |-> TargetAddr(b, 1, k)]

(* The heaps h and g together. *)
Merge(h, g) == [a \in (DOMAIN h) \cup (DOMAIN g) |-> IF a \in DOMAIN g THEN g[a] ELSE h[a]]

Without(m, k) == [x \in (DOMAIN m) \ {k} |-> m[x]]

SGoto(t, l) == sth' = [sth EXCEPT ![t] = l] /\ last' = NoEvent

SRet(t, op, arg, err) ==
    /\ sth' = [sth EXCEPT ![t] = SIdle]
    /\ last' = Event(t, op, arg, NilId, err, NoOut)

(* What f leaves behind: the store, the heap and the error it returns. *)
Applied(st, h, err) == [store |-> st, heap |-> h, err |-> err]

(* Lines 518-531 and 561-575: insert the compose with its one image     *)
(* build in state qs.                                                     *)
ApplyPush(st, h, l, qs) ==
    Applied([st EXCEPT !.Composes = Extend(@, l.id, Compose("bp", BuildsAddr(l.blk)))],
            Merge(h, [a \in {BuildsAddr(l.blk)} |->
                        <<ImageBuild(qs, TargetList(l.blk, l.n), Now,
                                     IF qs = IBRunning THEN Now ELSE ZeroTime,
                                     ZeroTime, l.id)>>]),
            NoErr)

(* A DeleteCompose that leaves the compose in the map. *)
ApplyDeleteKeep(st, h, l, fok) ==
    IF l.id \notin DOMAIN st.Composes
    THEN Applied(st, h, ErrNotFound)
    ELSE Applied(st, h, IF fok THEN NoErr ELSE ErrFile)

(* Lines 601-615. *)
ApplyDelete(st, h, l, fok) ==
    IF l.id \notin DOMAIN st.Composes
    THEN Applied(st, h, ErrNotFound)
    ELSE Applied([st EXCEPT !.Composes = Without(@, l.id)], h,
                 IF fok THEN NoErr ELSE ErrFile)

(* An update that does not look whether the build is Waiting. *)
ApplyUpdateUnchecked(st, h, l, fok) ==
    IF l.id \notin DOMAIN st.Composes
    THEN Applied(st, h, ErrNotFound)
    ELSE LET c == st.Composes[l.id]
             u == UpdateState(h, c, l.ib, l.ns)
         IN IF ~u.ok
            THEN Applied(st, h, ErrInvalidRequest)
            ELSE Applied(st, u.heap, NoErr)

(* Lines 622-658. *)
ApplyUpdate(st, h, l, fok) ==
    IF l.id \notin DOMAIN st.Composes
    THEN Applied(st, h, ErrNotFound)
    ELSE LET c == st.Composes[l.id]
             u == UpdateState(h, c, l.ib, l.ns)
         IN IF Build(h, c, l.ib).QueueStatus = IBWaiting
            THEN Applied(st, h, ErrNotPending)
            ELSE IF l.result # NilOutput /\ ~fok
            THEN Applied(st, h, ErrFile)
            ELSE IF ~u.ok
            THEN Applied(st, h, ErrInvalidRequest)
            ELSE IF l.ns = IBFinished \/ l.ns = IBFailed
            THEN Applied(st, [u.heap EXCEPT ![c.ImageBuilds] =
                                 [@ EXCEPT ![l.ib + 1].JobFinished = Now]], NoErr)
            ELSE Applied(st, u.heap, NoErr)

(* Lines 691-694 and 699-702. *)
ApplyPushSource(st, h, l) ==
    Applied([st EXCEPT !.Sources = Extend(@, l.name, l.name)], h, NoErr)

ApplyDeleteSource(st, h, l) ==
    Applied([st EXCEPT !.Sources = Without(@, l.name)], h, NoErr)

ErrRandom == "rand.Read"
ErrInitialize == "Initialize"
ErrUnknownBlueprint == "Unknown blueprint"
ErrNoCommits == "No commits for blueprint"

(* A hash that is the same at every call. *)
randomSHA1StringFixed(st) == 1

(* randomSHA1String (lines 202-216): a hash no commit of the store has. *)
randomSHA1String(st) ==
    1 + Cardinality(UNION {DOMAIN st.BlueprintsChanges[n] : n \in DOMAIN st.BlueprintsChanges})

(* A PushBlueprint that stores the blueprint as pushed. *)
ApplyPushBlueprintAsPushed(st, h, l, fok) ==
    IF ~fok THEN Applied(st, h, ErrRandom)
    ELSE IF ~Initialize(l.bp) THEN Applied(st, h, ErrInitialize)
    ELSE LET name == l.bp.Name
             commit == randomSHA1String(st)
         IN Applied([st EXCEPT
                        !.Workspace = Without(@, name),
                        !.BlueprintsChanges =
                            Extend(@, name, Extend(ChangesOf(st, name), commit,
                                      Change(commit, "msg", Now, l.bp, NoRevision))),
                        !.BlueprintsCommits =
                            Extend(@, name, Append(CommitsOf(st, name), commit)),
                        !.Blueprints = Extend(@, name, l.bp)],
                    h, NoErr)

(* Lines 306-341: f of PushBlueprint (fok: randomSHA1String succeeds).  *)
(* The change keeps the blueprint as pushed; the version is bumped       *)
(* after the change was made.                                             *)
ApplyPushBlueprint(st, h, l, fok) ==
    IF ~fok THEN Applied(st, h, ErrRandom)
    ELSE IF ~Initialize(l.bp) THEN Applied(st, h, ErrInitialize)
    ELSE LET name == l.bp.Name
             commit == randomSHA1String(st)
             bump == /\ name \in DOMAIN st.Blueprints
                     /\ \/ l.bp.Version = EmptyVersion
                        \/ l.bp.Version = st.Blueprints[name].Version
         IN Applied([st EXCEPT
                        !.Workspace = Without(@, name),
                        !.BlueprintsChanges =
                            Extend(@, name, Extend(ChangesOf(st, name), commit,
                                      Change(commit, "msg", Now, l.bp, NoRevision))),
                        !.BlueprintsCommits =
                            Extend(@, name, Append(CommitsOf(st, name), commit)),
                        !.Blueprints =
                            Extend(@, name,
                                   IF bump THEN BumpVersion(l.bp, st.Blueprints[name].Version)
                                   ELSE l.bp)],
                    h, NoErr)

(* Lines 345-356. *)
ApplyPushBlueprintToWorkspace(st, h, l) ==
    IF ~Initialize(l.bp) THEN Applied(st, h, ErrInitialize)
    ELSE Applied([st EXCEPT !.Workspace = Extend(@, l.bp.Name, l.bp)], h, NoErr)

(* Lines 361-369: the workspace copy goes even when the call fails. *)
ApplyDeleteBlueprint(st, h, l) ==
    IF l.bp.Name \notin DOMAIN st.Blueprints
    THEN Applied([st EXCEPT !.Workspace = Without(@, l.bp.Name)], h, ErrUnknownBlueprint)
    ELSE Applied([st EXCEPT !.Workspace = Without(@, l.bp.Name),
                            !.Blueprints = Without(@, l.bp.Name)], h, NoErr)

(* Lines 374-380. *)
ApplyDeleteBlueprintFromWorkspace(st, h, l) ==
    IF l.bp.Name \notin DOMAIN st.Workspace
    THEN Applied(st, h, ErrUnknownBlueprint)
    ELSE Applied([st EXCEPT !.Workspace = Without(@, l.bp.Name)], h, NoErr)

(* Lines 386-418: f of TagBlueprint. The loop of lines 406-413 walks    *)
(* the commits from the latest and stops at the first that has a         *)
(* revision above 0; the variable change is the change it looked at      *)
(* last, and that change is what line 417 stores under the latest        *)
(* commit.                                                                *)
ApplyTagBlueprint(st, h, l) ==
    LET name == l.bp.Name
        commits == CommitsOf(st, name)
        changes == ChangesOf(st, name)
        latest == commits[Len(commits)]
        hits == {i \in 1..Len(commits) :
                    /\ changes[commits[i]].Revision # NoRevision
                    /\ changes[commits[i]].Revision[1] > 0}
        stop == IF hits = {} THEN 1 ELSE CHOOSE i \in hits : \A j \in hits : j <= i
        change == changes[commits[stop]]
        revision == IF hits = {} THEN 0 ELSE change.Revision[1]
    IN IF name \notin DOMAIN st.Blueprints THEN Applied(st, h, ErrUnknownBlueprint)
       ELSE IF Len(commits) = 0 THEN Applied(st, h, ErrNoCommits)
       ELSE IF changes[latest].Revision # NoRevision THEN Applied(st, h, NoErr)
       ELSE Applied([st EXCEPT !.BlueprintsChanges[name][latest] =
                                   [change EXCEPT !.Revision = <<revision + 1>>]],
                    h, NoErr)

(* A GetBlueprint that prefers the committed blueprint. *)
GetBlueprintCommittedFirst(st, name) ==
    IF name \in DOMAIN st.Blueprints
    THEN [found |-> TRUE, bp |-> st.Blueprints[name], inWorkspace |-> FALSE]
    ELSE IF name \in DOMAIN st.Workspace
    THEN [found |-> TRUE, bp |-> st.Workspace[name], inWorkspace |-> TRUE]
    ELSE [found |-> FALSE, bp |-> NoBlueprint, inWorkspace |-> FALSE]

(* Lines 247-261: GetBlueprint under the read lock: found is FALSE for  *)
(* the nil it returns for an unknown name.                                *)
GetBlueprint(st, name) ==
    IF name \in DOMAIN st.Workspace
    THEN [found |-> TRUE, bp |-> st.Workspace[name], inWorkspace |-> TRUE]
    ELSE IF name \in DOMAIN st.Blueprints
    THEN [found |-> TRUE, bp |-> st.Blueprints[name], inWorkspace |-> FALSE]
    ELSE [found |-> FALSE, bp |-> NoBlueprint, inWorkspace |-> FALSE]

BlueprintOps ==
    {"PushBlueprint", "PushBlueprintToWorkspace", "DeleteBlueprint",
     "DeleteBlueprintFromWorkspace", "TagBlueprint"}

(* Line 609: os.RemoveAll of the compose's directory, reached when the  *)
(* compose exists (fok: it succeeds).                                     *)
RemoveAll(ds, st, l, fok) ==
    IF l.op = "DeleteCompose" /\ l.id \in DOMAIN st.Composes /\ fok
    THEN ds \ {l.id}
    ELSE ds

UpdateOps == {"UpdateImageBuildInCompose", "PushTestCompose.UpdateImageBuildInCompose"}

(* Line 609 removes result.json with the directory (every compose has   *)
(* one image build, 0). *)
RemoveResult(fs, st, l, fok) ==
    IF l.op = "DeleteCompose" /\ l.id \in DOMAIN st.Composes /\ fok
    THEN Without(fs, l.id)
    ELSE fs

(* A write of result.json that comes before the two checks. *)
WriteResultUnchecked(fs, st, h, l, fok) ==
    IF l.op \in UpdateOps /\ l.result # NilOutput /\ fok
    THEN Extend(fs, l.id, l.result)
    ELSE RemoveResult(fs, st, l, fok)

(* Lines 632-642: os.Create truncates result.json of the image build    *)
(* and the encoder writes the result into it, when a result is given     *)
(* and the two checks of lines 623-630 have passed (fok: os.Create       *)
(* succeeds).                                                             *)
WriteResult(fs, st, h, l, fok) ==
    IF /\ l.op \in UpdateOps
       /\ l.id \in DOMAIN st.Composes
       /\ Build(h, st.Composes[l.id], l.ib).QueueStatus # IBWaiting
       /\ l.result # NilOutput /\ fok
    THEN Extend(fs, l.id, l.result)
    ELSE RemoveResult(fs, st, l, fok)

(* os.Create needs the directory of the image build. *)
FileOK(ds, l, fok) == fok /\ (l.op \in UpdateOps => l.id \in ds)

(* f of the operation with locals l. *)
Apply(st, h, l, fok) ==
    IF l.op = "PushCompose" THEN ApplyPush(st, h, l, IBWaiting)
    ELSE IF l.op = "PushTestCompose" THEN ApplyPush(st, h, l, IBRunning)
    ELSE IF l.op = "DeleteCompose" THEN ApplyDelete(st, h, l, fok)
    ELSE IF l.op = "PushSource" THEN ApplyPushSource(st, h, l)
    ELSE IF l.op = "DeleteSource" THEN ApplyDeleteSource(st, h, l)
    ELSE IF l.op = "PushBlueprint" THEN ApplyPushBlueprint(st, h, l, fok)
    ELSE IF l.op = "PushBlueprintToWorkspace" THEN ApplyPushBlueprintToWorkspace(st, h, l)
    ELSE IF l.op = "DeleteBlueprint" THEN ApplyDeleteBlueprint(st, h, l)
    ELSE IF l.op = "DeleteBlueprintFromWorkspace"
    THEN ApplyDeleteBlueprintFromWorkspace(st, h, l)
    ELSE IF l.op = "TagBlueprint" THEN ApplyTagBlueprint(st, h, l)
    ELSE ApplyUpdate(st, h, l, fok)

MutatingOps ==
    {"PushCompose", "PushTestCompose", "DeleteCompose", "PushSource", "DeleteSource",
     "UpdateImageBuildInCompose", "PushTestCompose.UpdateImageBuildInCompose"}
        \cup BlueprintOps

(* Lines 492-495: PushCompose is called with n targets; it asks         *)
(* GetCompose whether the id is taken (line 423: the read lock).         *)
PushComposeCall(t, id, n) ==
    /\ SAt(t, "idle")
    /\ SGoto(t, [SIdle EXCEPT !.pc = "get_rlock", !.op = "PushCompose", !.id = id,
                              !.blk = FreshBlock, !.n = n])
    /\ heap' = Merge(heap, NewTargets(FreshBlock, n))
    /\ UNCHANGED <<qvars, dirs, files, store, state, mu>>

PushComposeRLock(t) ==
    /\ SAt(t, "get_rlock")
    /\ mu.w = NoHolder
    /\ mu' = [mu EXCEPT !.r = @ \cup {t}]
    /\ SGoto(t, [sth[t] EXCEPT !.pc = "get_read"])
    /\ UNCHANGED <<qvars, dirs, files, store, state, heap>>

(* Lines 426-427, 493-495: the lookup, the read unlock, the panic on a  *)
(* taken id.                                                              *)
PushComposeCheck(t) ==
    /\ SAt(t, "get_read")
    /\ mu' = [mu EXCEPT !.r = @ \ {t}]
    /\ IF sth[t].id \in DOMAIN store.Composes
       THEN SRet(t, "PushCompose", sth[t].id, Panic)
       ELSE SGoto(t, [sth[t] EXCEPT !.pc = "mkdir"])
    /\ heap' = Collect(heap, store, sth')
    /\ UNCHANGED <<qvars, dirs, files, store, state>>

(* Lines 507-514: the output directory, made outside the lock (mok:     *)
(* MkdirAll succeeds).                                                    *)
PushComposeMkdir(t, mok) ==
    /\ SAt(t, "mkdir")
    /\ IF mok
       THEN SGoto(t, [sth[t] EXCEPT !.pc = "lock"]) /\ dirs' = dirs \cup {sth[t].id}
       ELSE SRet(t, "PushCompose", sth[t].id, ErrFile) /\ dirs' = dirs
    /\ files' = files
    /\ heap' = Collect(heap, store, sth')
    /\ UNCHANGED <<qvars, store, state, mu>>

(* Lines 539-560: PushTestCompose inserts without asking. *)
PushTestComposeCall(t, id, n, succ) ==
    /\ SAt(t, "idle")
    /\ SGoto(t, [SIdle EXCEPT !.pc = "lock", !.op = "PushTestCompose", !.id = id,
                              !.blk = FreshBlock, !.n = n,
                              !.ns = IF succ THEN IBFinished ELSE IBFailed])
    /\ heap' = Merge(heap, NewTargets(FreshBlock, n))
    /\ UNCHANGED <<qvars, dirs, files, store, state, mu>>

DeleteComposeCall(t, id) ==
    /\ SAt(t, "idle")
    /\ SGoto(t, [SIdle EXCEPT !.pc = "lock", !.op = "DeleteCompose", !.id = id])
    /\ UNCHANGED <<qvars, dirs, files, store, state, heap, mu>>

UpdateImageBuildInComposeCall(t, id, ib, ns, result) ==
    /\ SAt(t, "idle")
    /\ SGoto(t, [SIdle EXCEPT !.pc = "lock", !.op = "UpdateImageBuildInCompose",
                              !.id = id, !.ib = ib, !.ns = ns, !.result = result])
    /\ UNCHANGED <<qvars, dirs, files, store, state, heap, mu>>

PushSourceCall(t, name) ==
    /\ SAt(t, "idle")
    /\ SGoto(t, [SIdle EXCEPT !.pc = "lock", !.op = "PushSource", !.name = name])
    /\ UNCHANGED <<qvars, dirs, files, store, state, heap, mu>>

DeleteSourceCall(t, name) ==
    /\ SAt(t, "idle")
    /\ SGoto(t, [SIdle EXCEPT !.pc = "lock", !.op = "DeleteSource", !.name = name])
    /\ UNCHANGED <<qvars, dirs, files, store, state, heap, mu>>

(* Line 219: s.mu.Lock(). *)
ChangeLock(t) ==
    /\ SAt(t, "lock")
    /\ mu = Unlocked
    /\ mu' = Mu(t, {})
    /\ SGoto(t, [sth[t] EXCEPT !.pc = "apply"])
    /\ UNCHANGED <<qvars, dirs, files, store, state, heap>>

(* A change that skips the write when f returned an error. *)
ChangeApplyOnSuccess(t, fok, wok) ==
    /\ SAt(t, "apply")
    /\ LET r == Apply(store, heap, sth[t], FileOK(dirs, sth[t], fok))
       IN /\ store' = r.store
          /\ heap' = r.heap
          /\ state' = IF wok /\ r.err = NoErr THEN Encode(r.store, r.heap) ELSE state
          /\ SGoto(t, [sth[t] EXCEPT !.pc = "unlock",
                                     !.err = IF wok THEN r.err ELSE Panic])
    /\ dirs' = RemoveAll(dirs, store, sth[t], fok)
    /\ files' = WriteResult(files, store, heap, sth[t], FileOK(dirs, sth[t], fok))
    /\ UNCHANGED <<qvars, mu>>

(* Lines 222-229: f, then the write of the whole store (wok: the write  *)
(* succeeds; otherwise change panics).                                    *)
ChangeApply(t, fok, wok) ==
    /\ SAt(t, "apply")
    /\ LET r == Apply(store, heap, sth[t], FileOK(dirs, sth[t], fok))
       IN /\ store' = r.store
          /\ heap' = r.heap
          /\ state' = IF wok THEN Encode(r.store, r.heap) ELSE state
          /\ SGoto(t, [sth[t] EXCEPT !.pc = "unlock",
                                     !.err = IF wok THEN r.err ELSE Panic])
    /\ dirs' = RemoveAll(dirs, store, sth[t], fok)
    /\ files' = WriteResult(files, store, heap, sth[t], FileOK(dirs, sth[t], fok))
    /\ UNCHANGED <<qvars, mu>>

(* Lines 220, 231: the deferred unlock and the return. PushTestCompose  *)
(* goes on to UpdateImageBuildInCompose (lines 578-589).                  *)
ChangeUnlock(t) ==
    /\ SAt(t, "unlock")
    /\ mu' = Unlocked
    /\ IF sth[t].op = "PushTestCompose" /\ sth[t].err # Panic
       THEN SGoto(t, [sth[t] EXCEPT !.pc = "lock", !.blk = 0, !.ib = 0,
                         !.result = ComposeResult(sth[t].ns = IBFinished),
                         !.op = "PushTestCompose.UpdateImageBuildInCompose"])
       ELSE SRet(t, sth[t].op, sth[t].id, sth[t].err)
    /\ heap' = Collect(heap, store, sth')
    /\ UNCHANGED <<qvars, dirs, files, store, state>>

(* Lines 454-455 and 662-663: GetImageBuildImage and                     *)
(* AddImageToImageUpload start without taking the lock.                  *)
ImageCall(t, op, id, ib) ==
    /\ SAt(t, "idle")
    /\ SGoto(t, [SIdle EXCEPT !.pc = "img_map", !.op = op, !.id = id, !.ib = ib])
    /\ UNCHANGED <<qvars, dirs, files, store, state, heap, mu>>

(* Another goroutine is about to mutate the store under the write lock. *)
WriterAtWork(t) == \E u \in Threads \ {t} : SAt(u, "apply")

Fatal == "fatal error: concurrent map read and map write"

(* Lines 455-459, 663-666: the lookup in s.Composes. Unsynchronised     *)
(* with a writer, the Go runtime may also stop the process (fatal).      *)
ImageMapRead(t, fatal) ==
    /\ SAt(t, "img_map")
    /\ fatal => WriterAtWork(t)
    /\ IF fatal
       THEN SRet(t, sth[t].op, sth[t].id, Fatal)
       ELSE IF sth[t].id \notin DOMAIN store.Composes
       THEN SRet(t, sth[t].op, sth[t].id, ErrNotFound)
       ELSE SGoto(t, [sth[t] EXCEPT !.pc = "img_build", !.c = store.Composes[sth[t].id]])
    /\ UNCHANGED <<qvars, dirs, files, store, state, heap, mu>>

(* Lines 461-480, 668-686: the search for the local target and the file *)
(* operations; target options and files are outside the model, so any    *)
(* of the three results may come out.                                     *)
ImageBuildRead(t, err) ==
    /\ SAt(t, "img_build")
    /\ err \in {NoErr, ErrNoLocalTarget, ErrFile}
    /\ SRet(t, sth[t].op, sth[t].id, err)
    /\ heap' = Collect(heap, store, sth')
    /\ UNCHANGED <<qvars, dirs, files, store, state, mu>>

(* The process stops and store.New loads state.json (lines 103-157). *)
StoreRestart ==
    /\ restarts < MaxRestarts
    /\ restarts' = restarts + 1
    /\ store' \in NewStores(state)
    /\ heap' = LoadHeap(state)
    /\ mu' = Unlocked
    /\ sth' = [t \in Threads |-> SIdle]
    /\ last' = Event("", "store.New", NilId, NilId, NoErr, NoOut)
    /\ UNCHANGED <<db, pending, dependants, mutex, th, nextId, clock, phase, nw,
                   hist, state, dirs, files>>

(* The goroutine serving the API (composes and sources are pushed and   *)
(* deleted) and the goroutine serving the workers (image builds are      *)
(* updated).                                                              *)
ApiThread == "t1"
WorkerThread == "t2"

(* The steps every store operation shares. *)
ChangeSteps ==
    \/ \E t \in Threads : PushComposeRLock(t)
    \/ \E t \in Threads : PushComposeCheck(t)
    \/ \E t \in Threads, mok \in BOOLEAN : PushComposeMkdir(t, mok)
    \/ \E t \in Threads : ChangeLock(t)
    \/ \E t \in Threads, fok \in BOOLEAN, wok \in BOOLEAN : ChangeApply(t, fok, wok)
    \/ \E t \in Threads : ChangeUnlock(t)

(* The API pushes and deletes composes with up to MaxPushTargets targets *)
(* while the worker side updates their image build; file operations and  *)
(* the write of state.json may fail; the process may restart.            *)
NextStore ==
    \/ \E id \in ComposeIds, n \in 0..MaxPushTargets : PushComposeCall(ApiThread, id, n)
    \/ \E id \in ComposeIds, n \in 0..MaxPushTargets, succ \in BOOLEAN :
         PushTestComposeCall(ApiThread, id, n, succ)
    \/ \E id \in ComposeIds : DeleteComposeCall(ApiThread, id)
    \/ \E id \in ComposeIds, ns \in ImageBuildStates :
         UpdateImageBuildInComposeCall(WorkerThread, id, 0, ns,
                                       ComposeResult(ns = IBFinished))
    \/ ChangeSteps
    \/ StoreRestart

SpecStore == Init /\ [][NextStore]_vars

(* The API pushes and deletes composes while the worker side updates    *)
(* their image build with or without a result.                            *)
NextResult ==
    \/ \E id \in ComposeIds : PushComposeCall(ApiThread, id, 0)
    \/ \E id \in ComposeIds, succ \in BOOLEAN : PushTestComposeCall(ApiThread, id, 0, succ)
    \/ \E id \in ComposeIds : DeleteComposeCall(ApiThread, id)
    \/ \E id \in ComposeIds, ns \in ImageBuildStates,
          result \in {NilOutput, ComposeResult(TRUE), ComposeResult(FALSE)} :
         UpdateImageBuildInComposeCall(WorkerThread, id, 0, ns, result)
    \/ ChangeSteps

SpecResult == Init /\ [][NextResult]_vars

(* The same with the sources pushed and deleted as well. *)
NextPersist ==
    \/ \E id \in ComposeIds, n \in 0..MaxPushTargets : PushComposeCall(ApiThread, id, n)
    \/ \E id \in ComposeIds, n \in 0..MaxPushTargets, succ \in BOOLEAN :
         PushTestComposeCall(ApiThread, id, n, succ)
    \/ \E id \in ComposeIds : DeleteComposeCall(ApiThread, id)
    \/ \E id \in ComposeIds, ns \in ImageBuildStates :
         UpdateImageBuildInComposeCall(WorkerThread, id, 0, ns,
                                       ComposeResult(ns = IBFinished))
    \/ \E name \in SourceNames : PushSourceCall(ApiThread, name)
    \/ \E name \in SourceNames : DeleteSourceCall(ApiThread, name)
    \/ ChangeSteps
    \/ StoreRestart

SpecPersist == Init /\ [][NextPersist]_vars

(* Any goroutine pushes and deletes composes and reads or uploads their *)
(* image.                                                                 *)
NextLock ==
    \/ \E t \in Threads, id \in ComposeIds, n \in 0..MaxPushTargets : PushComposeCall(t, id, n)
    \/ \E t \in Threads, id \in ComposeIds : DeleteComposeCall(t, id)
    \/ ChangeSteps
    \/ \E t \in Threads, op \in {"GetImageBuildImage", "AddImageToImageUpload"},
          id \in ComposeIds : ImageCall(t, op, id, 0)
    \/ \E t \in Threads, fatal \in BOOLEAN : ImageMapRead(t, fatal)
    \/ \E t \in Threads, err \in {NoErr, ErrNoLocalTarget, ErrFile} : ImageBuildRead(t, err)

SpecLock == Init /\ [][NextLock]_vars

(* The options of the k-th target of the i-th image build of block b:   *)
(* Target.Options holds a pointer (compose.go line 71 finds a            *)
(* *target.LocalTargetOptions in it).                                     *)
OptionsAddr(b, i, k) == <<b, 0 - i, k>>

LocalTargetOptions(filename) == [Filename |-> filename]

(* Compose.DeepCopy (compose.go lines 88-102) with ImageBuild.DeepCopy   *)
(* (lines 42-66): a new array of image builds in block b, each with a    *)
(* new slice of new targets, every target a copy of the Target struct    *)
(* (newTarget := *t), so the copy's Options is the pointer of the        *)
(* original.                                                              *)
DeepCopy(h, c, b) ==
    LET old == Builds(h, c)
        addrs == {BuildsAddr(b)} \cup
                 UNION {{TargetAddr(b, i, k) : k \in 1..Len(old[i].Targets)} :
                           i \in 1..Len(old)}
    IN Merge(h, [a \in addrs |->
                   IF a = BuildsAddr(b)
                   THEN [i \in 1..Len(old) |->
                           [old[i] EXCEPT !.Targets =
                               [k \in 1..Len(old[i].Targets) |-> TargetAddr(b, i, k)]]]
                   ELSE h[old[a[2]].Targets[a[3]]]])

(* Lines 432-444: GetAllComposes under the read lock; the caller goes   *)
(* on with the copy of compose id.                                        *)
GetAllComposes(t, id) ==
    /\ SAt(t, "idle")
    /\ mu.w = NoHolder
    /\ id \in DOMAIN store.Composes
    /\ heap' = DeepCopy(heap, store.Composes[id], FreshBlock)
    /\ sth' = [sth EXCEPT ![t] = [SIdle EXCEPT !.pc = "holds", !.op = "GetAllComposes",
                                      !.id = id,
                                      !.c = Compose(store.Composes[id].Blueprint,
                                                    BuildsAddr(FreshBlock))]]
    /\ last' = Event(t, "GetAllComposes", id, NilId, NoErr, NoOut)
    /\ UNCHANGED <<qvars, dirs, files, store, state, mu>>

(* The caller changes its copy: the state of image build 0, the status  *)
(* of its target k, or the file name in the options of that target; it   *)
(* then drops the copy.                                                   *)
CallerMutate(t, what, k, ns) ==
    /\ SAt(t, "holds")
    /\ LET c == sth[t].c
           b == Build(heap, c, 0)
       IN /\ k \in 1..Len(b.Targets)
          /\ heap' = IF what = "build" THEN SetQueueStatus(heap, c, 0, ns)
                     ELSE IF what = "target"
                     THEN [heap EXCEPT ![b.Targets[k]].Status = ns]
                     ELSE [heap EXCEPT ![heap[b.Targets[k]].Options].Filename = "changed"]
    /\ SGoto(t, [sth[t] EXCEPT !.pc = "dropped"])
    /\ UNCHANGED <<qvars, dirs, files, store, state, mu>>

CallerDrop(t) ==
    /\ SAt(t, "dropped")
    /\ SGoto(t, SIdle)
    /\ heap' = Collect(heap, store, sth')
    /\ UNCHANGED <<qvars, dirs, files, store, state, mu>>

(* One compose, its image build in any state, with one to MaxTargets    *)
(* targets that have local target options.                                *)
InitCopy ==
    /\ QueueInit
    /\ store = [EmptyStore EXCEPT !.Composes = Extend(EmptyMap, 1, Compose("bp", BuildsAddr(1)))]
    /\ \E qs \in ImageBuildStates, n \in 1..MaxTargets :
          heap = [a \in {BuildsAddr(1)} \cup
                        UNION {{TargetAddr(1, 1, k), OptionsAddr(1, 1, k)} : k \in 1..n} |->
                    IF a = BuildsAddr(1)
                    THEN <<ImageBuild(qs, [k \in 1..n |-> TargetAddr(1, 1, k)],
                                      Now, ZeroTime, ZeroTime, NilId)>>
                    ELSE IF a[2] > 0
                    THEN [Status |-> qs, Options |-> OptionsAddr(1, 1, a[3])]
                    ELSE LocalTargetOptions("image")]
    /\ state = NoDoc
    /\ mu = Unlocked
    /\ sth = [t \in Threads |-> SIdle]
    /\ dirs = {1}
    /\ files = << >>

NextCopy ==
    \/ \E t \in Threads, id \in ComposeIds : GetAllComposes(t, id)
    \/ \E t \in Threads, what \in {"build", "target", "options"}, k \in 1..MaxTargets,
          ns \in ImageBuildStates : CallerMutate(t, what, k, ns)
    \/ \E t \in Threads : CallerDrop(t)

SpecCopy == InitCopy /\ [][NextCopy]_vars

(* Lines 422-428: GetCompose under the read lock returns the Compose    *)
(* struct held in s.Composes by value: its ImageBuilds field is the      *)
(* slice header of the store's compose, over the same array.             *)
GetCompose(t, id) ==
    /\ SAt(t, "idle")
    /\ mu.w = NoHolder
    /\ id \in DOMAIN store.Composes
    /\ sth' = [sth EXCEPT ![t] = [SIdle EXCEPT !.pc = "holds", !.op = "GetCompose",
                                      !.id = id, !.c = store.Composes[id]]]
    /\ last' = Event(t, "GetCompose", id, NilId, NoErr, NoOut)
    /\ UNCHANGED <<qvars, dirs, files, store, state, heap, mu>>

(* Callers read one compose with GetCompose and change the state of its *)
(* image build or the status of one of its targets.                       *)
NextGetCompose ==
    \/ \E t \in Threads, id \in ComposeIds : GetCompose(t, id)
    \/ \E t \in Threads, what \in {"build", "target"}, k \in 1..MaxTargets,
          ns \in ImageBuildStates : CallerMutate(t, what, k, ns)
    \/ \E t \in Threads : CallerDrop(t)

SpecGetCompose == InitCopy /\ [][NextGetCompose]_vars

(* The blueprints callers push: one name, every kind of version. *)
BlueprintNames == {"base"}
Versions == {EmptyVersion, InvalidVersion} \cup {<<0, 0, p>> : p \in 0..MaxPatch}

(* Lines 305, 344, 360, 373, 385: a blueprint operation is called; all  *)
(* of them are one call of change.                                        *)
BlueprintCall(t, op, bp) ==
    /\ SAt(t, "idle")
    /\ op = "PushBlueprint" => randomSHA1String(store) <= MaxCommits
    /\ op \notin {"PushBlueprint", "PushBlueprintToWorkspace"} => bp.Version = EmptyVersion
    /\ SGoto(t, [SIdle EXCEPT !.pc = "lock", !.op = op, !.bp = bp])
    /\ UNCHANGED <<qvars, dirs, files, store, state, heap, mu>>

(* The API goroutine pushes, tags and deletes blueprints of one name.   *)
(* GetBlueprintChanges (lines 291-303), under the read lock. *)
GetBlueprintChangesCall(t, name) ==
    /\ SAt(t, "idle")
    /\ mu.w = NoHolder
    /\ last' = Event(t, "GetBlueprintChanges", name, NilId, NoErr,
                     GetBlueprintChanges(store, name))
    /\ UNCHANGED <<qvars, svars>>

(* The changes a state.json written before BlueprintsCommits existed    *)
(* can hold for a name: up to MaxLegacy commits, each with a timestamp   *)
(* and the version of its snapshot.                                       *)
LegacyVersions == {InvalidVersion, <<0, 0, 0>>, <<0, 0, 1>>}

LegacyChanges(k) ==
    {[c \in 1..k |-> Change(c, "msg", f[c][1], Blueprint("base", f[c][2]), NoRevision)] :
        f \in [1..k -> (0..MaxStamp) \X LegacyVersions]}

(* The commit lists such a document can hold for the changes chs: none, *)
(* the oldest commits only, or all commits in any order.                  *)
LegacyCommits(chs) ==
    {[i \in 1..n |-> i] : n \in 0..(Len(chs) - 1)} \cup Orders(DOMAIN chs)

(* The store is constructed from a state.json that an earlier version   *)
(* or this one has written.                                               *)
InitRebuild ==
    /\ QueueInit
    /\ \E chs \in UNION {LegacyChanges(k) : k \in 1..MaxLegacy} :
          \E cms \in {EmptyMap} \cup {Extend(EmptyMap, "base", o) : o \in LegacyCommits(chs)} :
             state = Encode([EmptyStore EXCEPT
                               !.Blueprints = Extend(EmptyMap, "base", chs[Len(chs)].Blueprint),
                               !.BlueprintsChanges = Extend(EmptyMap, "base", chs),
                               !.BlueprintsCommits = cms],
                            EmptyHeap)
    /\ store \in NewStores(state)
    /\ heap = LoadHeap(state)
    /\ mu = Unlocked
    /\ sth = [t \in Threads |-> SIdle]
    /\ dirs = {}
    /\ files = << >>

NextRebuild ==
    \/ \E name \in BlueprintNames : GetBlueprintChangesCall(ApiThread, name)
    \/ StoreRestart

SpecRebuild == InitRebuild /\ [][NextRebuild]_vars

NextBlueprint ==
    \/ \E op \in BlueprintOps, name \in BlueprintNames, v \in Versions :
          BlueprintCall(ApiThread, op, Blueprint(name, v))
    \/ ChangeLock(ApiThread)
    \/ \E fok \in BOOLEAN : ChangeApply(ApiThread, fok, TRUE)
    \/ ChangeUnlock(ApiThread)

SpecBlueprint == Init /\ [][NextBlueprint]_vars

(* The blueprint operations with restarts of the process in between. *)
NextCommits ==
    \/ NextBlueprint
    \/ StoreRestart

SpecCommits == Init /\ [][NextCommits]_vars

----------------------------------------------------------------------------
(* The worker server (internal/worker) on top of the queue. *)

(* common.ComposeState *)
CWaiting == 0
CRunning == 1
CFinished == 2
CFailed == 3

(* The job type of the server, "osbuild": one of the type names of the  *)
(* model.                                                                 *)
OSBuild == "fish"

(* The worker.OSBuildJob the server enqueues. *)
OSBuildJob == Value("struct", 0, "manifest")

(* json.Unmarshal(raw, &result) for a worker.OSBuildJobResult: [ok, val]. *)
UnmarshalResult(raw) ==
    IF raw = <<"{", "}">>
    THEN [ok |-> TRUE, val |-> OSBuildJobResult(NilOutput)]
    ELSE IF Len(raw) = 7 /\ raw[2] = "osbuild_output" /\ raw[4] = "success"
            /\ raw[5] \in {"true", "false"}
    THEN [ok |-> TRUE, val |-> OSBuildJobResult(ComposeResult(raw[5] = "true"))]
    ELSE [ok |-> FALSE, val |-> OSBuildJobResult(NilOutput)]

(* What a call of the server gives back: a compose state, an error, or  *)
(* the panic of a nil pointer dereference.                                *)
Returned(cs, err, panic) == [state |-> cs, err |-> err, panic |-> panic]

(* A composeStateFromJobStatus that takes a nil output for no success. *)
composeStateNilFails(status, output) ==
    IF status = JobPending THEN Returned(CWaiting, NoErr, FALSE)
    ELSE IF status = JobRunning THEN Returned(CRunning, NoErr, FALSE)
    ELSE IF status = JobFinished
    THEN IF ~output.nil /\ output.Success THEN Returned(CFinished, NoErr, FALSE)
         ELSE Returned(CFailed, NoErr, FALSE)
    ELSE Returned(CWaiting, NoErr, FALSE)

(* server.go lines 220-234: output.Success dereferences output. *)
composeStateFromJobStatus(status, output) ==
    IF status = JobPending THEN Returned(CWaiting, NoErr, FALSE)
    ELSE IF status = JobRunning THEN Returned(CRunning, NoErr, FALSE)
    ELSE IF status = JobFinished
    THEN IF output.nil THEN Returned(CWaiting, NoErr, TRUE)
         ELSE IF output.Success THEN Returned(CFinished, NoErr, FALSE)
         ELSE Returned(CFailed, NoErr, FALSE)
    ELSE Returned(CWaiting, NoErr, FALSE)

(* fsJobQueue.JobStatus (lines 413-435) into a zero OSBuildJobResult:   *)
(* [err, status, result].                                                 *)
JobStatus(id) ==
    LET rd == ReadJob(id)
        u == UnmarshalResult(rd.j.result)
    IN IF ~rd.ok
       THEN [err |-> ErrNotExist, status |-> "", result |-> OSBuildJobResult(NilOutput)]
       ELSE IF rd.j.status = JobFinished /\ ~u.ok
       THEN [err |-> ErrUnmarshal, status |-> "", result |-> OSBuildJobResult(NilOutput)]
       ELSE [err |-> NoErr, status |-> rd.j.status,
             result |-> IF rd.j.status = JobFinished THEN u.val
                        ELSE OSBuildJobResult(NilOutput)]

(* Server.JobStatus (lines 81-92) and Server.JobResult (lines 94-102):  *)
(* both pass the status and result.OSBuildOutput on.                      *)
ServerJobStatus(id) ==
    LET js == JobStatus(id)
    IN IF js.err # NoErr THEN Returned(CWaiting, js.err, FALSE)
       ELSE composeStateFromJobStatus(js.status, js.result.OSBuildOutput)

(* A goroutine asks for the status or the result of job id. *)
JobStatusCall(t, op, id) ==
    /\ Up /\ At(t, "idle")
    /\ op \in {"JobStatus", "JobResult"}
    /\ Ret(t, op, id, NilId, ServerJobStatus(id).err, ServerJobStatus(id))
    /\ UNCHANGED <<db, pending, dependants, mutex, nextId, clock, phase, nw,
                   restarts, hist>>

(* Server.Enqueue (lines 72-79): no dependencies. *)
ServerEnqueue(t) == EnqueueCall(t, OSBuild, OSBuildJob, {})

(* addJobHandler (lines 123-151) with a well-formed request. *)
addJobHandler(t) == DequeueCall(t, {OSBuild}, OutStruct, FALSE)

(* A PATCH request: its Content-Type, the job_id of its path (BadId when *)
(* it is no UUID), the status of its body (Omitted when the body has     *)
(* none) and its result.                                                  *)
Request(ct, id, status, result) ==
    [contentType |-> ct, job_id |-> id, status |-> status, result |-> result]

JSONType == "application/json"
BadId == 0 - 1

ErrMediaType == "request must contain application/json data"
ErrParseId == "cannot parse compose id"
ErrParseBody == "cannot parse request body"
ErrNotSupported == "setting status of a job to waiting or running is not supported"

(* The status decoded from the body (line 167): [ok, val]. *)
BodyStatus(req) ==
    IF req.status = Omitted THEN [ok |-> TRUE, val |-> IBWaiting]
    ELSE StateFromJSON(req.status)

(* An updateJobHandler that records a failure for the status FAILED. *)
updateJobHandlerByStatus(t, req) ==
    IF \/ req.contentType # JSONType \/ req.job_id = BadId \/ ~BodyStatus(req).ok
       \/ BodyStatus(req).val \notin {IBFinished, IBFailed}
    THEN /\ Up /\ At(t, "idle")
         /\ Ret(t, "updateJobHandler", NilId, NilId,
                IF req.contentType # JSONType THEN ErrMediaType
                ELSE IF req.job_id = BadId THEN ErrParseId
                ELSE IF ~BodyStatus(req).ok THEN ErrParseBody
                ELSE ErrNotSupported, NoOut)
         /\ UNCHANGED <<db, pending, dependants, mutex, nextId, clock, phase, nw,
                        restarts, hist>>
    ELSE FinishCall(t, req.job_id,
                    OSBuildJobResult(IF BodyStatus(req).val = IBFailed /\ ~req.result.nil
                                     THEN ComposeResult(FALSE)
                                     ELSE req.result))

(* An updateJobHandler that passes every status on to FinishJob. *)
updateJobHandlerAnyStatus(t, req) ==
    IF req.contentType # JSONType \/ req.job_id = BadId \/ ~BodyStatus(req).ok
    THEN /\ Up /\ At(t, "idle")
         /\ Ret(t, "updateJobHandler", NilId, NilId,
                IF req.contentType # JSONType THEN ErrMediaType
                ELSE IF req.job_id = BadId THEN ErrParseId
                ELSE ErrParseBody, NoOut)
         /\ UNCHANGED <<db, pending, dependants, mutex, nextId, clock, phase, nw,
                        restarts, hist>>
    ELSE FinishCall(t, req.job_id, OSBuildJobResult(req.result))

(* updateJobHandler (lines 153-195) up to the first step of FinishJob;   *)
(* the steps of FinishJob follow and its return is answered by           *)
(* StatusCode.                                                             *)
updateJobHandler(t, req) ==
    IF \/ req.contentType # JSONType \/ req.job_id = BadId \/ ~BodyStatus(req).ok
       \/ BodyStatus(req).val \notin {IBFinished, IBFailed}
    THEN /\ Up /\ At(t, "idle")
         /\ Ret(t, "updateJobHandler", NilId, NilId,
                IF req.contentType # JSONType THEN ErrMediaType
                ELSE IF req.job_id = BadId THEN ErrParseId
                ELSE IF ~BodyStatus(req).ok THEN ErrParseBody
                ELSE ErrNotSupported, NoOut)
         /\ UNCHANGED <<db, pending, dependants, mutex, nextId, clock, phase, nw,
                        restarts, hist>>
    ELSE FinishCall(t, req.job_id, OSBuildJobResult(req.result))

(* The HTTP status updateJobHandler answers with when it returns with   *)
(* the event ev (lines 154-194): its own checks, or the error FinishJob  *)
(* returned.                                                              *)
StatusCode(ev) ==
    IF ev.op = "updateJobHandler"
    THEN IF ev.err = ErrMediaType THEN 415 ELSE 400
    ELSE IF ev.err = NoErr THEN 200
    ELSE IF ev.err = ErrNotExist THEN 404
    ELSE IF ev.err = ErrNotRunning THEN 400
    ELSE 500

(* The requests workers and others send: well-formed ones for any job  *)
(* id, with a result when the status is terminal, and requests with      *)
(* another Content-Type, a job id that is no UUID or a status that is    *)
(* none.                                                                  *)
Results == {NilOutput, ComposeResult(TRUE), ComposeResult(FALSE)}

Requests ==
    {Request(JSONType, id, st, NilOutput) :
        id \in 1..(MaxWorkerJobs + 1), st \in {Omitted, "RUNNING"}}
    \cup {Request(JSONType, id, "FINISHED", r) : id \in 1..(MaxWorkerJobs + 1), r \in Results}
    \cup {Request(JSONType, id, "FAILED", r) : id \in 1..(MaxWorkerJobs + 1), r \in Results}
    \cup {Request(ct, id, st, NilOutput) :
            ct \in {JSONType, "text/plain"}, id \in {1, BadId}, st \in {"WAITING", "FINISHED"}}
    \cup {Request(JSONType, 1, "DONE", NilOutput)}

(* The server enqueues jobs, workers take them and report them, the     *)
(* API asks for their status; a write of a document may fail.             *)
NextWorker ==
    \/ \E t \in Threads : nextId <= MaxWorkerJobs /\ ServerEnqueue(t)
    \/ \E t \in Threads : addJobHandler(t)
    \/ \E t \in Threads, req \in Requests : updateJobHandler(t, req)
    \/ \E t \in Threads, op \in {"JobStatus", "JobResult"}, id \in 1..MaxWorkerJobs :
          JobStatusCall(t, op, id)
    \/ \E t \in Threads, wok \in BOOLEAN : EnqueueWrite(t, wok)
    \/ \E t \in Threads : EnqueuePush(t)
    \/ \E t \in Threads : DequeueRecv(t)
    \/ \E t \in Threads : DequeueRead(t)
    \/ \E t \in Threads, s \in 1..MaxTime, wok \in BOOLEAN : DequeueWrite(t, s, wok)
    \/ \E t \in Threads, s \in 1..MaxTime, wok \in BOOLEAN : FinishWrite(t, s, wok)
    \/ \E t \in Threads : FinishLock(t)
    \/ \E t \in Threads : FinishUnlock(t)

SpecWorker == Init /\ [][NextWorker]_vars

(* Any goroutine pushes composes, all with the ids of ComposeIds. *)
NextPush ==
    \/ \E t \in Threads, id \in ComposeIds, n \in 0..MaxPushTargets : PushComposeCall(t, id, n)
    \/ ChangeSteps

SpecPush == Init /\ [][NextPush]_vars

----------------------------------------------------------------------------
(* Properties. *)

Jobs == DOMAIN db

Status(id) == db[id].status

(* Every dependency of job id is Finished on disk. *)
DepsFinished(id) == \A d \in db[id].deps : d \in Jobs /\ Status(d) = JobFinished

(* No operation is in progress. *)
Quiescent == Up /\ \A t \in Threads : At(t, "idle")

(* id is held in the pending channel of type ty. *)
InChannel(id, ty) == \E i \in 1..Len(pending[ty]) : pending[ty][i] = id

(* C1: every job id is returned by a successful Dequeue at most once,    *)
(* whatever the interleaving of Enqueue, Dequeue and FinishJob.          *)
C1_DequeuedAtMostOnce == \A id \in DOMAIN deqCount : deqCount[id] <= 1

(* C2: the persisted status of a job only ever changes from Pending to   *)
(* Running and from Running to Finished.                                  *)
C2_StatusForward ==
    [][\A id \in Jobs :
          db'[id].status # db[id].status =>
              \/ db[id].status = JobPending /\ db'[id].status = JobRunning
              \/ db[id].status = JobRunning /\ db'[id].status = JobFinished]_vars

(* C4: no lost wake-up: when no operation is in progress any more, every *)
(* job that is Pending with all its dependencies Finished has been sent  *)
(* to its type's pending channel.                                         *)
C4_ReadyJobPushed ==
    Quiescent =>
        \A id \in Jobs :
            (Status(id) = JobPending /\ DepsFinished(id)) => pushed[id] >= 1

(* C3: when a Dequeue returns a job id, every dependency of that job is  *)
(* Finished on disk.                                                      *)
C3_DequeuedDepsFinished ==
    (last.op = "Dequeue" /\ last.err = NoErr) => DepsFinished(last.id)

(* C5: fsjobqueue.New terminates whatever the number of Pending jobs in  *)
(* the directory: while New runs, it can always take its next step.      *)
C5_NewTerminates == (phase = "new") => ENABLED NewStep

(* The channel of type ty holds exactly the jobs of that type that are   *)
(* Pending with every dependency Finished, each once.                    *)
HoldsReadyJobs(ty) ==
    /\ \A i \in 1..Len(pending[ty]) : pending[ty][i] \in Jobs
    /\ \A id \in Jobs :
         InChannel(id, ty) <=>
             (db[id].type = ty /\ Status(id) = JobPending /\ DepsFinished(id))
    /\ \A i, k \in 1..Len(pending[ty]) : pending[ty][i] = pending[ty][k] => i = k

(* C6: when New has succeeded on the directory of a previous run, every  *)
(* pending channel holds exactly the Pending jobs of its type whose      *)
(* dependencies are all Finished, each once; and once no operation is in *)
(* progress, every job New found Pending whose dependencies have all     *)
(* finished since has been sent to its channel.                          *)
C6_NewReschedules ==
    /\ (last.op = "New" /\ last.err = NoErr) => \A ty \in JobTypes : HoldsReadyJobs(ty)
    /\ (Quiescent /\ restarts > 0) =>
           \A id \in loaded :
               (Status(id) = JobPending /\ DepsFinished(id)) => pushed[id] >= 1

(* New has just returned and re-queued a job of the previous run. *)
C6_Witness ==
    /\ last.op = "New" /\ last.err = NoErr
    /\ \E id \in loaded : Status(id) = JobPending /\ InChannel(id, db[id].type)

(* C7: Enqueue and FinishJob never wait for a Dequeue: no goroutine      *)
(* stands at a send to a pending channel that is full.                   *)
C7_OnlyDequeueBlocks ==
    \A t \in Threads :
        /\ (At(t, "enq_index") /\ AllFinished(th[t].n, th[t].j.deps))
               => CanSend(th[t].j.type)
        /\ (At(t, "fin_count") /\ th[t].todo = {} /\ AllFinished(th[t].n, th[t].dj.deps))
               => CanSend(th[t].dj.type)

(* C8: every job that is Finished on disk has                             *)
(* finished_at >= started_at >= queued_at.                                *)
C8_StampsOrdered ==
    \A id \in Jobs :
        Status(id) = JobFinished =>
            db[id].finishedAt >= db[id].startedAt /\ db[id].startedAt >= db[id].queuedAt

(* A Finished job whose three stamps differ. *)
C8_Witness ==
    \E id \in Jobs :
        /\ Status(id) = JobFinished
        /\ db[id].finishedAt > db[id].startedAt
        /\ db[id].startedAt > db[id].queuedAt

(* Job a's Enqueue returned before job b's Enqueue was called, and both  *)
(* are dependency-free jobs of one type.                                 *)
EnqueuedBefore(a, b) ==
    /\ a \in enqPrior[b]
    /\ a \in Jobs /\ b \in Jobs
    /\ db[a].type = db[b].type
    /\ db[a].deps = {} /\ db[b].deps = {}

(* C9 as stated: of two dependency-free jobs of one type, the first      *)
(* enqueued has been returned by a Dequeue whenever the second has.      *)
C9_FifoReturn ==
    \A b \in DOMAIN enqPrior : \A a \in enqPrior[b] :
        (EnqueuedBefore(a, b) /\ deqCount[b] >= 1) => deqCount[a] >= 1

(* C9 amended: of two dependency-free jobs of one type, the first        *)
(* enqueued has been received from the type's channel by a Dequeue       *)
(* whenever the second has.                                               *)
C9_FifoReceive ==
    \A b \in DOMAIN enqPrior : \A a \in enqPrior[b] :
        (EnqueuedBefore(a, b) /\ b \in received) => a \in received

(* Both of two jobs enqueued one after the other have been received. *)
C9_Witness ==
    \E b \in DOMAIN enqPrior : \E a \in enqPrior[b] :
        EnqueuedBefore(a, b) /\ b \in received /\ a \in received

(* C10: a successful Dequeue returns the id of a job of one of the       *)
(* requested types and leaves in its destination exactly the arguments   *)
(* the job was enqueued with.                                             *)
C10_DequeueRoundTrip ==
    (last.op = "Dequeue" /\ last.err = NoErr) =>
        /\ last.id \in Jobs
        /\ db[last.id].type \in last.types
        /\ OutJSON(last.outv) = Marshal(enqArgs[last.id]).raw
        /\ last.outv.kind = OutStruct => last.outv.val = enqArgs[last.id]

(* A Dequeue for one type returned the second job enqueued, into a       *)
(* struct, while a job of the other type with other arguments is queued. *)
C10_Witness ==
    /\ last.op = "Dequeue" /\ last.err = NoErr
    /\ last.outv.kind = OutStruct
    /\ Cardinality(last.types) = 1
    /\ \E id \in Jobs :
         /\ id < last.id
         /\ db[id].type # db[last.id].type
         /\ enqArgs[id] # enqArgs[last.id]

(* id is in some pending channel, in some list of the reverse-dependency *)
(* map, or has a document.                                                *)
Known(id) ==
    \/ id \in DOMAIN db
    \/ \E ty \in JobTypes : InChannel(id, ty)
    \/ \E k \in DOMAIN dependants : \E i \in 1..Len(dependants[k]) : dependants[k][i] = id

(* C11: a Dequeue that returns the context's error returns uuid.Nil, has *)
(* received no id, and its return leaves every pending channel and every *)
(* job document as they were.                                             *)
C11_CancelledDequeue ==
    [][(last'.op = "Dequeue" /\ last'.err = ErrCtx) =>
           /\ last'.id = NilId /\ last'.arg = NilId
           /\ pending' = pending
           /\ db' = db]_vars

(* A Dequeue returned the context's error while an id waits in a channel *)
(* it asked for.                                                          *)
C11_Witness ==
    /\ last.op = "Dequeue" /\ last.err = ErrCtx
    /\ pending["fish"] # << >>

(* C12: FinishJob for an id without a document returns ErrNotExist, for  *)
(* a job that is Pending or Finished ErrNotRunning, and only a Running   *)
(* job is taken further; the failing call changes no document, channel   *)
(* or reverse-dependency entry.                                           *)
C12_FinishJobRejects ==
    [][\A t \in Threads :
          /\ (At(t, "idle") /\ last'.t = t /\ last'.op = "FinishJob") =>
                /\ last'.arg \notin DOMAIN db => last'.err = ErrNotExist
                /\ (last'.arg \in DOMAIN db /\ db[last'.arg].status # JobRunning)
                       => last'.err = ErrNotRunning
                /\ last'.err \in {ErrNotExist, ErrNotRunning} =>
                       db' = db /\ pending' = pending /\ dependants' = dependants
          /\ (At(t, "idle") /\ th'[t].op = "FinishJob") =>
                th'[t].rid \in DOMAIN db /\ db[th'[t].rid].status = JobRunning]_vars

(* FinishJob was refused for a job that is already Finished. *)
C12_Witness ==
    /\ last.op = "FinishJob" /\ last.err = ErrNotRunning
    /\ last.arg \in Jobs /\ Status(last.arg) = JobFinished

(* C13: an Enqueue that returns an error returns uuid.Nil, and the id it *)
(* generated has no document, is in no pending channel and in no list of *)
(* the reverse-dependency map; its return changes none of the three.     *)
C13_FailedEnqueue ==
    [][\A t \in Threads :
          (last'.t = t /\ last'.op = "Enqueue" /\ last'.err # NoErr
             /\ th[t].op \in {"", "Enqueue"}) =>
              /\ last'.id = NilId
              /\ ~(Known(IF At(t, "idle") THEN nextId ELSE th[t].j.id))'
              /\ db' = db /\ pending' = pending /\ dependants' = dependants]_vars

(* An Enqueue failed at its document write. *)
C13_Witness == last.op = "Enqueue" /\ last.err = ErrWrite

(* Some Dequeue holds id: it has received it and not yet returned, or it *)
(* has just returned it.                                                  *)
HandedOut(id) ==
    \/ \E t \in Threads : th[t].op = "Dequeue" /\ th[t].rid = id
    \/ last.op = "Dequeue" /\ last.arg = id

(* C14: no step of New changes a job document, and a job New found      *)
(* Running is in no pending channel, is sent to none and is held by no   *)
(* Dequeue afterwards.                                                    *)
C14_RestartKeepsJobs ==
    [][/\ (phase = "new" \/ phase' = "new") => db' = db
       /\ \A id \in startRunning' :
             /\ pushed'[id] = 0
             /\ \A ty \in JobTypes : ~InChannel(id, ty)'
             /\ ~HandedOut(id)']_vars

(* New has returned on a directory with a Running and a Finished job,    *)
(* and a Dequeue waits on the channel.                                    *)
C14_Witness ==
    /\ Up /\ startRunning # {}
    /\ \E id \in loaded : Status(id) = JobFinished /\ db[id].result # NoRaw
    /\ \E t \in Threads : At(t, "deq_select")

(* The transitions UpdateState allows. *)
AllowedTransitions ==
    {<<IBWaiting, IBRunning>>, <<IBRunning, IBRunning>>,
     <<IBRunning, IBFinished>>, <<IBRunning, IBFailed>>}

(* C15: UpdateState succeeds exactly for Waiting->Running,               *)
(* Running->Running, Running->Finished and Running->Failed; a success    *)
(* sets the state (and, for Finished and Failed, every target's status), *)
(* every other call returns a StateTransitionError and leaves the build  *)
(* and its targets as they were.                                          *)
C15_UpdateStateTransitions ==
    [][last'.op = "UpdateState" =>
          LET c == store.Composes[last'.id]
              qs == Build(heap, c, 0).QueueStatus
              ns == last'.arg
          IN /\ (last'.err = NoErr) <=> (<<qs, ns>> \in AllowedTransitions)
             /\ last'.err \in {NoErr, ErrTransition}
             /\ last'.err = ErrTransition => heap' = heap
             /\ last'.err = NoErr =>
                   /\ Build(heap', c, 0).QueueStatus = ns
                   /\ ns \in {IBFinished, IBFailed} =>
                         \A k \in 1..Len(Build(heap, c, 0).Targets) :
                             heap'[Build(heap, c, 0).Targets[k]].Status = ns]_vars

(* A Finished build with two targets was refused the move to Running. *)
C15_Witness ==
    /\ last.op = "UpdateState" /\ last.arg = IBRunning /\ last.err = ErrTransition
    /\ Build(heap, store.Composes[1], 0).QueueStatus = IBFinished
    /\ Len(Build(heap, store.Composes[1], 0).Targets) = 2


(* The image builds of the store: pairs of a compose id and an index. *)
StoredBuilds ==
    {x \in (DOMAIN store.Composes) \X (0..0) :
        x[2] < Len(Builds(heap, store.Composes[x[1]]))}

StoredBuild(x) == Build(heap, store.Composes[x[1]], x[2])

(* C16: in every reachable state of the store, an image build that is   *)
(* Finished or Failed has every target's status equal to that state and  *)
(* has JobFinished stamped, whether it became terminal through           *)
(* UpdateImageBuildInCompose or through the normalisation of store.New.  *)
C16_TerminalPropagated ==
    \A x \in StoredBuilds :
        LET b == StoredBuild(x)
        IN b.QueueStatus \in {IBFinished, IBFailed} =>
              /\ \A k \in 1..Len(b.Targets) : heap[b.Targets[k]].Status = b.QueueStatus
              /\ b.JobFinished # ZeroTime

PersistedState(doc, c, i) == DecodeState(doc.composes[c].image_builds[i].queue_status)

PersistedComposes(doc) == IF "composes" \in DOMAIN doc THEN DOMAIN doc.composes ELSE {}

(* C18: after store.New has loaded a persisted state no image build is  *)
(* Waiting or Running: a build persisted as Waiting or Running is        *)
(* Failed, a build persisted as Finished or Failed keeps its state.      *)
C18_NewFailsUnfinished ==
    [][last'.op = "store.New" =>
          /\ DOMAIN store'.Composes = PersistedComposes(state)
          /\ \A c \in PersistedComposes(state) :
                /\ Len(Builds(heap', store'.Composes[c])) = Len(state.composes[c].image_builds)
                /\ \A i \in 1..Len(state.composes[c].image_builds) :
                      LET p == PersistedState(state, c, i)
                          q == Build(heap', store'.Composes[c], i - 1).QueueStatus
                      IN /\ q \notin {IBWaiting, IBRunning}
                         /\ p \in {IBWaiting, IBRunning} => q = IBFailed
                         /\ p \in {IBFinished, IBFailed} => q = p]_vars

C18_Witness ==
    /\ last.op = "store.New"
    /\ \E c \in PersistedComposes(state) :
          /\ PersistedState(state, c, 1) \in {IBWaiting, IBRunning}
          /\ StoredBuild(<<c, 0>>).QueueStatus = IBFailed

(* The latest step is the return of a mutating operation that ran       *)
(* Store.change: PushCompose returns the error of MkdirAll before it     *)
(* calls change (lines 505-514), a panic is no return.                    *)
ChangeReturned ==
    /\ last.op \in MutatingOps
    /\ last.err # Panic
    /\ ~(last.op = "PushCompose" /\ last.err = ErrFile)

C20_MapReadExcludesWriter ==
    \A t \in Threads : ~(SAt(t, "img_map") /\ WriterAtWork(t))


(* C21: PushCompose never replaces a compose: whatever the interleaving *)
(* of PushCompose calls with one id, a stored compose stays as it is.    *)
C21_PushNeverReplaces ==
    [][\A c \in DOMAIN store.Composes :
          /\ c \in DOMAIN store'.Composes
          /\ store'.Composes[c] = store.Composes[c]
          /\ Builds(heap', store'.Composes[c]) = Builds(heap, store.Composes[c])]_vars

StoreView ==
    [store |-> store,
     objs |-> [a \in {x \in DOMAIN heap :
                        \E c \in DOMAIN store.Composes :
                           x[1] = store.Composes[c].ImageBuilds[1]} |-> heap[a]]]

(* C23: no mutation a caller applies to a compose returned by           *)
(* GetAllComposes (image builds, targets, target options) is observable  *)
(* through a later read of the store.                                     *)
C23_CopyIsDeep ==
    [][(\E t \in Threads : SAt(t, "holds") /\ sth'[t].pc = "dropped")
          => StoreView' = StoreView]_vars

(* Goroutine t runs f of op in this step and f returns nil. *)
Applies(t, op) ==
    /\ SAt(t, "apply") /\ sth[t].op = op
    /\ sth'[t].pc = "unlock" /\ sth'[t].err = NoErr

(* C26: when the document New loads has, for a name, a number of       *)
(* changes that is not the length of its commit list, the commit list    *)
(* of the store holds every commit of the name exactly once, ascending   *)
(* by timestamp and, for equal timestamps, by the version of the         *)
(* snapshot, and GetBlueprintChanges returns the changes in that order;  *)
(* when the lengths agree the list of the document is kept.              *)
C26_CommitsRebuilt ==
    \A name \in DOMAIN LoadStore(state).BlueprintsChanges :
       LET chs == ChangesOf(LoadStore(state), name)
           old == CommitsOf(LoadStore(state), name)
           new == CommitsOf(store, name)
           got == last.outv
       IN IF Cardinality(DOMAIN chs) # Len(old)
          THEN /\ Len(new) = Cardinality(DOMAIN chs)
               /\ {new[i] : i \in 1..Len(new)} = DOMAIN chs
               /\ \A i, j \in 1..Len(new) :
                     i < j => \/ chs[new[i]].Timestamp < chs[new[j]].Timestamp
                              \/ /\ chs[new[i]].Timestamp = chs[new[j]].Timestamp
                                 /\ ~LessThan(NewVersion(chs[new[j]].Blueprint.Version),
                                              NewVersion(chs[new[i]].Blueprint.Version))
               /\ (last.op = "GetBlueprintChanges" /\ last.arg = name)
                     => got = [i \in 1..Len(new) |-> chs[new[i]]]
          ELSE /\ new = old
               /\ (last.op = "GetBlueprintChanges" /\ last.arg = name)
                     => got = [i \in 1..Len(old) |-> chs[old[i]]]

(* After a restart GetBlueprintChanges has returned three changes of a  *)
(* document without commit list: the change of the last commit comes     *)
(* first, the second has its timestamp and a higher version.              *)
C26_Witness ==
    /\ restarts = 1
    /\ last.op = "GetBlueprintChanges" /\ last.arg = "base"
    /\ CommitsOf(LoadStore(state), "base") = << >>
    /\ Len(last.outv) = 3
    /\ last.outv[1].Commit = 3
    /\ last.outv[1].Timestamp = last.outv[2].Timestamp
    /\ LessThan(NewVersion(last.outv[1].Blueprint.Version),
                NewVersion(last.outv[2].Blueprint.Version))

(* The requests updateJobHandler reads to the end: JSON content, a job  *)
(* id that parses and a body that decodes.                                *)
WellFormed(req) ==
    req.contentType = JSONType /\ req.job_id # BadId /\ BodyStatus(req).ok

Terminal(req) == BodyStatus(req).val \in {IBFinished, IBFailed}

(* The step answers a request with the HTTP status code and changes no  *)
(* job document.                                                          *)
Answers(t, code) ==
    /\ last'.t = t /\ StatusCode(last') = code /\ db' = db

(* What C28 says of the step in which t handles the request req. *)
PatchAnswer(t, req) ==
    /\ ~Terminal(req) => Answers(t, 400) /\ last'.op = "updateJobHandler"
    /\ (Terminal(req) /\ req.job_id \notin DOMAIN db) => Answers(t, 404)
    /\ (Terminal(req) /\ req.job_id \in DOMAIN db /\ db[req.job_id].status # JobRunning)
          => Answers(t, 400)
    /\ ((last'.t = t /\ StatusCode(last') = 200) \/ th'[t].op = "FinishJob")
          => Terminal(req) /\ req.job_id \in DOMAIN db /\ db[req.job_id].status = JobRunning

(* An answer 200 comes from FinishJob and leaves the job Finished. *)
OKLeavesFinished ==
    (last.op \in {"updateJobHandler", "FinishJob"} /\ StatusCode(last) = 200)
       => last.op = "FinishJob" /\ last.arg \in DOMAIN db /\ db[last.arg].status = JobFinished

(* C28 as stated, for every PATCH request: 400 without a call of       *)
(* FinishJob when the status is not FINISHED or FAILED, 404 when the job *)
(* does not exist, 400 when it is not Running, no document changed in    *)
(* these cases; 200 only for a terminal status on a Running job, which   *)
(* is then Finished.                                                      *)
C28_PatchAnyRequest ==
    /\ [][\A t \in Threads :
             (At(t, "idle") /\ (th'[t].op = "FinishJob" \/ last'.t = t)) =>
                \A req \in Requests : updateJobHandler(t, req) => PatchAnswer(t, req)]_vars
    /\ []OKLeavesFinished

(* C28 for the requests with Content-Type application/json, a job id    *)
(* that parses and a body that decodes.                                   *)
C28_PatchWellFormed ==
    /\ [][\A t \in Threads :
             (At(t, "idle") /\ (th'[t].op = "FinishJob" \/ last'.t = t)) =>
                \A req \in Requests :
                   (WellFormed(req) /\ updateJobHandler(t, req)) => PatchAnswer(t, req)]_vars
    /\ []OKLeavesFinished

(* A PATCH reporting a failed build was answered 200 and the job is     *)
(* Finished with that result.                                             *)
C28_Witness ==
    /\ last.op = "FinishJob" /\ StatusCode(last) = 200
    /\ db[last.arg].status = JobFinished
    /\ db[last.arg].result = Marshal(OSBuildJobResult(ComposeResult(FALSE))).raw

(* The success the result of a finished job's document records. *)
RecordsSuccess(j) == Len(j.result) = 7 /\ j.result[5] = "true"

(* C29: for a job the queue knows JobStatus and JobResult return, with- *)
(* out failing, Waiting for a Pending job, Running for a Running job,    *)
(* and for a Finished job Finished when its result has Success true and  *)
(* Failed otherwise.                                                      *)
C29_JobStatus ==
    (last.op \in {"JobStatus", "JobResult"} /\ last.arg \in DOMAIN db)
       => /\ last.err = NoErr /\ ~last.outv.panic
          /\ last.outv.state =
                IF db[last.arg].status = JobPending THEN CWaiting
                ELSE IF db[last.arg].status = JobRunning THEN CRunning
                ELSE IF RecordsSuccess(db[last.arg]) THEN CFinished ELSE CFailed

(* Job id is in a channel of p, or in a list of the map m. *)
Indexed(id, p, m) ==
    \/ \E ty \in JobTypes : \E i \in 1..Len(p[ty]) : p[ty][i] = id
    \/ \E k \in DOMAIN m : \E i \in 1..Len(m[k]) : m[k][i] = id

(* C30: in Enqueue, Dequeue and FinishJob the document of the job is   *)
(* written before the operation changes a pending channel or the         *)
(* reverse-dependency map for it: a step of a goroutine that changes one *)
(* of the two finds the document as its operation writes it, and when an *)
(* operation returns a failed write the job is where it was: not known   *)
(* to the indices (Enqueue), still in a pending channel (Dequeue).       *)
C30_WriteBeforeMemory ==
    [][\A t \in Threads :
          /\ (th'[t] # th[t] /\ (pending' # pending \/ dependants' # dependants)) =>
                /\ th[t].op = "Enqueue" => th[t].j.id \in DOMAIN db
                /\ th[t].op = "Dequeue" =>
                      th'[t].rid \in DOMAIN db /\ db[th'[t].rid].status = JobRunning
                /\ th[t].op = "FinishJob" =>
                      th[t].rid \in DOMAIN db /\ db[th[t].rid].status = JobFinished
          /\ (last'.t = t /\ last'.err = ErrWrite) =>
                /\ pending' = pending /\ dependants' = dependants
                /\ last'.op = "Enqueue" => ~Indexed(th[t].j.id, pending', dependants')
                /\ last'.op = "Dequeue" => Indexed(th[t].rid, pending', EmptyMap)]_vars

(* C24: a successful PushBlueprint appends exactly one new commit to    *)
(* the end of the name's commit list and one entry to its change map;    *)
(* when a committed blueprint of the name exists and the pushed version  *)
(* is empty or the stored one, the stored version grows strictly.        *)
C24_PushBlueprint ==
    [][\A t \in Threads :
          Applies(t, "PushBlueprint") =>
             LET name == sth[t].bp.Name
                 old == CommitsOf(store, name)
                 new == CommitsOf(store', name)
             IN /\ Len(new) = Len(old) + 1
                /\ SubSeq(new, 1, Len(old)) = old
                /\ new[Len(new)] \notin DOMAIN ChangesOf(store, name)
                /\ DOMAIN ChangesOf(store', name) =
                      (DOMAIN ChangesOf(store, name)) \cup {new[Len(new)]}
                /\ \A c \in DOMAIN ChangesOf(store, name) :
                      ChangesOf(store', name)[c] = ChangesOf(store, name)[c]
                /\ (/\ name \in DOMAIN store.Blueprints
                    /\ \/ sth[t].bp.Version = EmptyVersion
                       \/ sth[t].bp.Version = store.Blueprints[name].Version)
                   => LessThan(NewVersion(store.Blueprints[name].Version),
                               NewVersion(store'.Blueprints[name].Version))]_vars

(* A push with an empty version has bumped the stored version twice. *)
C24_Witness ==
    /\ last.op = "PushBlueprint" /\ last.err = NoErr
    /\ "base" \in DOMAIN store.Blueprints
    /\ store.Blueprints["base"].Version = <<0, 0, 2>>
    /\ Len(CommitsOf(store, "base")) = 3

(* The highest revision among the changes chs, 0 if there is none. *)
MaxRevision(chs) ==
    LET revs == {chs[c].Revision[1] : c \in {d \in DOMAIN chs : chs[d].Revision # NoRevision}}
    IN IF revs = {} THEN 0 ELSE CHOOSE r \in revs : \A q \in revs : q <= r

(* C25: TagBlueprint on a blueprint with commits changes nothing when   *)
(* the latest commit has a revision; otherwise the latest commit, and    *)
(* nothing else of it, receives the revision one above the highest of    *)
(* the name's commits.                                                    *)
C25_TagBlueprint ==
    [][\A t \in Threads :
          (Applies(t, "TagBlueprint") /\ Len(CommitsOf(store, sth[t].bp.Name)) > 0) =>
             LET name == sth[t].bp.Name
                 commits == CommitsOf(store, name)
                 changes == ChangesOf(store, name)
                 latest == commits[Len(commits)]
             IN IF changes[latest].Revision # NoRevision
                THEN store' = store
                ELSE store' = [store EXCEPT !.BlueprintsChanges[name][latest].Revision =
                                               <<MaxRevision(changes) + 1>>]]_vars

(* C27: GetBlueprint returns the workspace copy, fromWorkspace true,    *)
(* whenever the name has a workspace entry, and otherwise the committed  *)
(* blueprint, fromWorkspace false; when a successful PushBlueprint       *)
(* returns the name has no workspace entry and GetBlueprint returns the  *)
(* blueprint just committed.                                              *)
C27_GetBlueprint ==
    [][/\ \A name \in BlueprintNames :
             LET g == GetBlueprint(store', name)
             IN /\ name \in DOMAIN store'.Workspace
                     => g.found /\ g.inWorkspace /\ g.bp = store'.Workspace[name]
                /\ (name \notin DOMAIN store'.Workspace /\ name \in DOMAIN store'.Blueprints)
                     => g.found /\ ~g.inWorkspace /\ g.bp = store'.Blueprints[name]
       /\ \A t \in Threads :
             (/\ SAt(t, "unlock") /\ sth[t].op = "PushBlueprint" /\ sth[t].err = NoErr
              /\ last'.t = t)
             => LET g == GetBlueprint(store', sth[t].bp.Name)
                    cms == CommitsOf(store', sth[t].bp.Name)
                IN /\ sth[t].bp.Name \notin DOMAIN store'.Workspace
                   /\ g.found /\ ~g.inWorkspace
                   /\ g.bp = store'.Blueprints[sth[t].bp.Name]
                   /\ g.bp.Name = sth[t].bp.Name
                   /\ \/ g.bp.Version = sth[t].bp.Version
                      \/ LessThan(NewVersion(sth[t].bp.Version), g.bp.Version)
                   /\ ChangesOf(store', sth[t].bp.Name)[cms[Len(cms)]].Blueprint = sth[t].bp]_vars

(* A PushBlueprint has returned for a name that had a workspace entry   *)
(* two steps of the caller before.                                        *)
C27_Witness ==
    /\ last.op = "PushBlueprint" /\ last.err = NoErr
    /\ "base" \in DOMAIN store.Blueprints
    /\ "base" \notin DOMAIN store.Workspace
    /\ Len(CommitsOf(store, "base")) = 2
    /\ store.Blueprints["base"].Version = <<0, 0, 1>>

(* C31: whenever no operation is running, every key of the reverse-      *)
(* dependency map is a job that is not Finished and every id listed      *)
(* under it is a Pending job that depends on the key; a FinishJob(id)    *)
(* that returns nil leaves no entry for id.                               *)
C31_DependantsIndex ==
    /\ [](Quiescent =>
             \A k \in DOMAIN dependants :
                /\ k \in DOMAIN db /\ db[k].status # JobFinished
                /\ \A i \in 1..Len(dependants[k]) :
                      /\ dependants[k][i] \in DOMAIN db
                      /\ db[dependants[k][i]].status = JobPending
                      /\ k \in db[dependants[k][i]].deps)
    /\ []((last.op = "FinishJob" /\ last.err = NoErr) => last.arg \notin DOMAIN dependants)

(* C32: a Dequeue that fails to unmarshal the arguments leaves the      *)
(* documents as they are, and the job it received is Pending with a zero *)
(* started_at.                                                            *)
C32_UnmarshalFailure ==
    [][(last'.op = "Dequeue" /\ last'.err = ErrUnmarshal) =>
          /\ db' = db
          /\ db'[last'.arg].status = JobPending
          /\ db'[last'.arg].startedAt = ZeroTime]_vars

(* C33: a caller that changes the state of an image build or the status *)
(* of a target of the compose GetCompose returned changes nothing a read *)
(* of the store can reach.                                                *)
C33_GetComposeCopies ==
    [][(\E t \in Threads : /\ SAt(t, "holds") /\ sth[t].op = "GetCompose"
                            /\ sth'[t].pc = "dropped")
          => StoreView' = StoreView]_vars

(* Goroutine t runs f of UpdateImageBuildInCompose in this step and f   *)
(* returns err.                                                           *)
UpdateFails(t, err) ==
    /\ SAt(t, "apply") /\ sth[t].op \in UpdateOps
    /\ sth'[t].pc = "unlock" /\ sth'[t].err = err

(* C38 as stated: an UpdateImageBuildInCompose that returns an error     *)
(* (unknown compose, NotPendingError, invalid state transition) leaves    *)
(* the compose map, the directories and every result.json as they were.   *)
C38_FailedUpdateChangesNothing ==
    [][\A t \in Threads :
          (\E err \in {ErrNotFound, ErrNotPending, ErrInvalidRequest} : UpdateFails(t, err))
             => /\ StoreView' = StoreView
                /\ dirs' = dirs
                /\ files' = files]_vars

(* C38 amended: the compose map and the directories are left as they    *)
(* were by every failing call; result.json is left as it was when the     *)
(* compose is unknown or the build is Waiting, and when the state         *)
(* transition is invalid it has already been written anew from the        *)
(* result the call was given, if it was given one.                        *)
C38_FailedUpdateKeepsComposes ==
    [][\A t \in Threads :
          /\ (UpdateFails(t, ErrNotFound) \/ UpdateFails(t, ErrNotPending))
                => (StoreView' = StoreView /\ dirs' = dirs /\ files' = files)
          /\ UpdateFails(t, ErrInvalidRequest)
                => /\ StoreView' = StoreView
                   /\ dirs' = dirs
                   /\ files' = IF sth[t].result = NilOutput
                                THEN files
                                ELSE Extend(files, sth[t].id, sth[t].result)]_vars

(* An update of a Finished build to Running with a result that reports  *)
(* a failure has been refused, and result.json holds that result.         *)
C38_Witness ==
    \E t \in Threads :
       /\ SAt(t, "unlock") /\ sth[t].op = "UpdateImageBuildInCompose"
       /\ sth[t].err = ErrInvalidRequest /\ sth[t].ns = IBRunning
       /\ sth[t].result = ComposeResult(FALSE)
       /\ sth[t].id \in DOMAIN store.Composes
       /\ Build(heap, store.Composes[sth[t].id], 0).QueueStatus = IBFinished
       /\ sth[t].id \in DOMAIN files /\ files[sth[t].id] = ComposeResult(FALSE)

(* C36: a TagBlueprint that returns nil changes nothing but the         *)
(* Revision field of the change record of the latest commit: the other   *)
(* fields of that record, every other record, the commit lists, the      *)
(* committed blueprints and the workspace stay as they were.              *)
C36_TagOnlyRevision ==
    [][\A t \in Threads :
          (Applies(t, "TagBlueprint") /\ Len(CommitsOf(store, sth[t].bp.Name)) > 0) =>
             LET name == sth[t].bp.Name
                 commits == CommitsOf(store, name)
                 latest == commits[Len(commits)]
                 old == ChangesOf(store, name)[latest]
             IN \E rev \in {old.Revision, NoRevision} \cup {<<r>> : r \in 0..(MaxCommits + 1)} :
                   store' = [store EXCEPT !.BlueprintsChanges[name][latest].Revision = rev]]_vars

(* C37: after a successful PushBlueprint the blueprint recorded in the  *)
(* change of the new commit is the blueprint stored as the committed     *)
(* blueprint of the name, version included.                               *)
C37_SnapshotIsCommitted ==
    [][\A t \in Threads :
          Applies(t, "PushBlueprint") =>
             LET name == sth[t].bp.Name
                 commits == CommitsOf(store', name)
             IN ChangesOf(store', name)[commits[Len(commits)]].Blueprint =
                   store'.Blueprints[name]]_vars

(* C39: for every blueprint name the commit list has no duplicates and  *)
(* its elements are the keys of the name's change map, in every state     *)
(* PushBlueprint, DeleteBlueprint, TagBlueprint and New lead to.          *)
C39_CommitsMatchChanges ==
    \A name \in (DOMAIN store.BlueprintsCommits) \cup (DOMAIN store.BlueprintsChanges) :
       LET commits == CommitsOf(store, name)
       IN /\ \A i, j \in 1..Len(commits) : commits[i] = commits[j] => i = j
          /\ {commits[i] : i \in 1..Len(commits)} = DOMAIN ChangesOf(store, name)

(* A blueprint was pushed, deleted, pushed twice again and tagged. *)
C39_Witness ==
    /\ last.op = "TagBlueprint" /\ last.err = NoErr
    /\ Len(CommitsOf(store, "base")) = MaxCommits
    /\ \E c \in DOMAIN ChangesOf(store, "base") :
          ChangesOf(store, "base")[c].Revision # NoRevision

(* C40: a step in which updateJobHandler handles a PATCH with a         *)
(* terminal status is also its step for the PATCH that differs in the    *)
(* terminal status alone (FINISHED or FAILED), so that nothing kept tells *)
(* the two apart; and the compose state JobStatus and JobResult derive    *)
(* for a Finished job is Finished when the stored result has Success     *)
(* true and Failed when it has Success false.                             *)
C40_StatusIgnored ==
    /\ [][\A t \in Threads :
             (At(t, "idle") /\ (th'[t].op = "FinishJob" \/ last'.t = t)) =>
                \A r1, r2 \in Requests :
                   (/\ WellFormed(r1) /\ WellFormed(r2) /\ Terminal(r1) /\ Terminal(r2)
                    /\ r1.job_id = r2.job_id /\ r1.result = r2.result
                    /\ updateJobHandler(t, r1))
                      => updateJobHandler(t, r2)]_vars
    /\ []((/\ last.op \in {"JobStatus", "JobResult"} /\ last.err = NoErr
            /\ ~last.outv.panic
            /\ last.arg \in DOMAIN db /\ db[last.arg].status = JobFinished)
             => last.outv.state = IF RecordsSuccess(db[last.arg]) THEN CFinished ELSE CFailed)

(* JobStatus has derived Finished for a job a PATCH has finished with a *)
(* result of Success true.                                                *)
C40_Witness ==
    /\ last.op = "JobStatus" /\ last.err = NoErr
    /\ last.arg \in DOMAIN db /\ db[last.arg].status = JobFinished
    /\ db[last.arg].result = Marshal(OSBuildJobResult(ComposeResult(TRUE))).raw
    /\ last.outv.state = CFinished

(* C34: every id held in the pending channel of a type is a job that is *)
(* Pending on disk, of that type, with all its dependencies Finished, and *)
(* no id is held twice in the pending channels.                           *)
C34_PendingChannels ==
    /\ \A ty \in DOMAIN pending : \A i \in 1..Len(pending[ty]) :
          LET id == pending[ty][i]
          IN /\ id \in DOMAIN db
             /\ db[id].status = JobPending
             /\ db[id].type = ty
             /\ \A d \in db[id].deps : d \in DOMAIN db /\ db[d].status = JobFinished
    /\ \A ty1, ty2 \in DOMAIN pending :
          \A i \in 1..Len(pending[ty1]), j \in 1..Len(pending[ty2]) :
             pending[ty1][i] = pending[ty2][j] => (ty1 = ty2 /\ i = j)

(* The FinishJob of goroutine t for job id has just returned nil. *)
FinishSucceeded(t, id) ==
    last.t = t /\ last.op = "FinishJob" /\ last.err = NoErr /\ last.arg = id

(* C35: once a FinishJob for a job has returned nil no other FinishJob  *)
(* for that job returns nil, and when a FinishJob returns nil the         *)
(* persisted result is the result that call was given.                    *)
C35_OneFinishSucceeds ==
    /\ \A id \in 1..MaxWorkerJobs : \A t \in Threads :
          [](FinishSucceeded(t, id) =>
                []((~FinishSucceeded(t, id)) =>
                      [](\A u \in Threads : ~FinishSucceeded(u, id))))
    /\ [][\A t \in Threads :
             (/\ th[t].op = "FinishJob"
              /\ last'.t = t /\ last'.op = "FinishJob" /\ last'.err = NoErr)
                => db'[th[t].rid].result = th[t].res]_vars

====
